---- MODULE Spec2Model ----
(***************************************************************************)
(* A model of the nuke memory arenas: the monotonic arena (bump allocation *)
(* with alignment over a fixed list of lazily materialised buffers), the   *)
(* slab arena (the same list, one mutex per slab, no alignment parameter), *)
(* and the typed helper New[T].                                            *)
(*                                                                         *)
(* Addresses are natural numbers; 0 is the nil pointer.  uintptr values    *)
(* are kept modulo UintMod.  The Go runtime's make([]byte, n) and new(T)   *)
(* are nondeterministic: they return any block that does not overlap a     *)
(* block the arena still holds.  Go slices are 0-based; the sequences      *)
(* below are 1-based, so buffer i of the source is buffers[i+1] here.      *)
(***************************************************************************)
EXTENDS Integers, Sequences, FiniteSets, TLC

VARIABLES
    kind,       \* the Arena value the caller holds: "monotonic", "slab" or "nil"
    buffers,    \* monotonicArena.buffers: sequence of [ptr, offset, size]
    slabs,      \* slabArena.slabs: sequence of [ptr, offset, size]
    mem,        \* content of each buffer's backing block (0 = zero byte, 1 = non-zero)
    ret,        \* the last call made by the caller and what it returned
    owned,      \* addresses handed out since the last Reset (caller's view)
    served,     \* sum of the sizes of the successful allocations since the last Reset
    calls,      \* the calls the caller has recorded (scenario bookkeeping)
    pos,        \* replay scenario: index of the next recorded call to replay, 0 while recording
    mtx,        \* the mutexes: mtx[0] is concurrentArena.mtx, mtx[i] is slab i's mtx; 0 = unlocked, t = held by thread t
    thr         \* per thread: the call it is executing, its position in it and its locals

vars == <<kind, buffers, slabs, mem, ret, owned, served, calls, pos, mtx, thr>>

---------------------------------------------------------------------------
(* Bounds of the model *)

\* width in bits of the scaled-down uintptr
UintBits == 10
\* capacity in bytes of every buffer of the arena under test
BufSize == 3
\* addresses the runtime may use beyond the space the buffers need
HeapSlack == 1
\* longest recorded sequence of calls
MaxCalls == 3
\* largest length and capacity of a slice
MaxLen == 3

UintMod == 2 ^ UintBits
Nil == 0
\* buffer counts passed to the constructors
BufferCounts == {1, 2}
\* first address of the modelled heap; a 16-aligned address lies inside it
HeapLo == 14
\* request sizes: 0, every size that fits a buffer, and one that never fits
SlabSizes == 0..(BufSize + 1)
\* the same as uintptr, and the largest uintptr, ^uintptr(0)
Sizes == SlabSizes \cup {UintMod - 1}
Aligns == {1, 2, 4, 8, 16}

---------------------------------------------------------------------------
(* Pure helpers *)

Zeros(n) == [k \in 1..n |-> 0]
Block(base, size) == base..(base + size - 1)

RECURSIVE SumOffsets(_)
SumOffsets(bufs) ==
    IF bufs = <<>> THEN 0 ELSE Head(bufs).offset + SumOffsets(Tail(bufs))

RECURSIVE SumSizes(_)
SumSizes(bufs) ==
    IF bufs = <<>> THEN 0 ELSE Head(bufs).size + SumSizes(Tail(bufs))

\* last address of the modelled heap for an arena with these buffers
HeapTop(bufs) == HeapLo + SumSizes(bufs) + HeapSlack - 1

\* The runtime's choice of fresh blocks for make([]byte, size): one base per
\* buffer, equal to the block the buffer already holds, otherwise any block
\* inside the heap that overlaps no other buffer's block.
Layouts(bufs) ==
    LET unset == {i \in 1..Len(bufs) : bufs[i].ptr = Nil}
    IN  { f \in { [i \in 1..Len(bufs) |-> IF i \in unset THEN g[i] ELSE bufs[i].ptr] :
                    g \in [unset -> HeapLo..HeapTop(bufs)] } :
            /\ \A i \in unset : f[i] + bufs[i].size - 1 <= HeapTop(bufs)
            /\ \A i \in unset : \A j \in 1..Len(bufs) :
                  i # j => Block(f[i], bufs[i].size) \cap Block(f[j], bufs[j].size) = {} }

\* number of blocks make() handed to the arena between two buffer lists
Made(before, after) ==
    Cardinality({i \in 1..Len(before) : before[i].ptr = Nil /\ after[i].ptr # Nil})

---------------------------------------------------------------------------
(* monotonic_arena.go *)

newMonotonicBuffer(size) == [ptr |-> Nil, offset |-> 0, size |-> size]

NewMonotonicArena(bufferSize, bufferCount) ==
    [i \in 1..bufferCount |-> newMonotonicBuffer(bufferSize)]

\* faulty variant: the bytes already handed out are not subtracted
availableBytesWhole(s) == s.size

\* s.size - s.offset, in uintptr arithmetic
availableBytes(s) == (s.size - s.offset + UintMod) % UintMod

\* faulty variant: the alignment loop never advances
alignLoopNone(alignedPtr, alignment, alignOffset) == alignOffset

\* for alignedPtr := uintptr(s.ptr) + s.offset; alignedPtr%alignment != 0; alignedPtr++ { alignOffset++ }
RECURSIVE alignLoop(_, _, _)
alignLoop(alignedPtr, alignment, alignOffset) ==
    IF alignedPtr % alignment # 0
    THEN alignLoop((alignedPtr + 1) % UintMod, alignment, (alignOffset + 1) % UintMod)
    ELSE alignOffset

\* faulty variant: the padding is not counted in the bytes consumed
allocSizeNoPad(size, alignOffset) == size

\* allocSize := size + alignOffset
allocSizeOf(size, alignOffset) == (size + alignOffset) % UintMod

\* faulty variant: the capacity check is missing
noRoomNever(s, allocSize) == FALSE

\* faulty variant: a request that fits exactly is refused
noRoomOffByOne(s, allocSize) == availableBytes(s) <= allocSize

\* if s.availableBytes() < allocSize { return nil, false }
noRoom(s, allocSize) == availableBytes(s) < allocSize

\* faulty variant: the padding is left out of the address
allocPtrNoPad(s, alignOffset) == (s.ptr + s.offset) % UintMod

\* ptr := unsafe.Pointer(uintptr(s.ptr) + s.offset + alignOffset)
allocPtr(s, alignOffset) == (s.ptr + s.offset + alignOffset) % UintMod

\* faulty variant: the returned range is not cleared
clearNone(m, start, size) == m

\* faulty variant: the whole block is cleared
clearBlock(m, start, size) == [k \in 1..Len(m) |-> 0]

\* b := unsafe.Slice((*byte)(ptr), size); for i := range b { b[i] = 0 }
\* on the block content m, where the range starts at byte `start` of the block
clear(m, start, size) ==
    [k \in 1..Len(m) |-> IF start <= k - 1 /\ k - 1 < start + size THEN 0 ELSE m[k]]

\* unsafe.Slice(ptr, size) panics when size, converted to int, is negative or
\* the range runs past the end of the address space
slicePanics(ptr, size) == size >= UintMod \div 2 \/ ptr + size > UintMod

\* monotonicBuffer.alloc on buffer s whose block holds m; fresh is the base
\* that make([]byte, s.size) returns if the buffer has no block yet.
monotonicBufferAlloc(s, m, fresh, size, alignment) ==
    LET s1 == IF s.ptr = Nil THEN [s EXCEPT !.ptr = fresh] ELSE s
        m1 == IF s.ptr = Nil THEN Zeros(s.size) ELSE m
        alignOffset == alignLoop((s1.ptr + s1.offset) % UintMod, alignment, 0)
        allocSize == allocSizeOf(size, alignOffset)
        ptr == allocPtr(s1, alignOffset)
    IN  IF noRoom(s1, allocSize)
        THEN [s |-> s1, m |-> m1, ptr |-> Nil, ok |-> FALSE, panic |-> FALSE]
        ELSE IF slicePanics(ptr, size)
        \* the offset is already advanced when unsafe.Slice panics; nothing is returned
        THEN [s |-> [s1 EXCEPT !.offset = (s1.offset + allocSize) % UintMod],
              m |-> m1, ptr |-> Nil, ok |-> FALSE, panic |-> TRUE]
        ELSE [s |-> [s1 EXCEPT !.offset = (s1.offset + allocSize) % UintMod],
              m |-> clear(m1, s1.offset + alignOffset, size),
              ptr |-> ptr, ok |-> TRUE, panic |-> FALSE]

\* faulty variant: the offset is rewound only when the memory is released
monotonicBufferResetReleaseOnly(s, m, release) ==
    IF s.offset = 0 \/ ~release
    THEN [s |-> s, m |-> m]
    ELSE [s |-> [s EXCEPT !.offset = 0, !.ptr = Nil], m |-> <<>>]

\* faulty variant: the block is dropped whatever release says
monotonicBufferResetAlwaysRelease(s, m, release) ==
    IF s.offset = 0
    THEN [s |-> s, m |-> m]
    ELSE [s |-> [s EXCEPT !.offset = 0, !.ptr = Nil], m |-> <<>>]

\* faulty variant: the release drops the block and leaves the offset
monotonicBufferResetKeepOffset(s, m, release) ==
    IF s.offset = 0
    THEN [s |-> s, m |-> m]
    ELSE IF release
         THEN [s |-> [s EXCEPT !.ptr = Nil], m |-> <<>>]
         ELSE [s |-> [s EXCEPT !.offset = 0], m |-> m]

\* faulty variant: no early return for an unused buffer
monotonicBufferResetNoEarlyReturn(s, m, release) ==
    IF release
    THEN [s |-> [s EXCEPT !.offset = 0, !.ptr = Nil], m |-> <<>>]
    ELSE [s |-> [s EXCEPT !.offset = 0], m |-> m]

\* faulty variant: a buffer that is not in use gives up its block
monotonicBufferResetDropIdle(s, m, release) ==
    IF s.offset = 0
    THEN [s |-> [s EXCEPT !.ptr = Nil], m |-> <<>>]
    ELSE IF release
         THEN [s |-> [s EXCEPT !.offset = 0, !.ptr = Nil], m |-> <<>>]
         ELSE [s |-> [s EXCEPT !.offset = 0], m |-> m]

\* monotonicBuffer.reset
monotonicBufferReset(s, m, release) ==
    IF s.offset = 0
    THEN [s |-> s, m |-> m]
    ELSE IF release
         THEN [s |-> [s EXCEPT !.offset = 0, !.ptr = Nil], m |-> <<>>]
         ELSE [s |-> [s EXCEPT !.offset = 0], m |-> m]

\* monotonicArena.Alloc: the loop over a.buffers, from index i on
RECURSIVE monotonicArenaAllocFrom(_, _, _, _, _, _)
monotonicArenaAllocFrom(i, bufs, m, f, size, alignment) ==
    IF i > Len(bufs)
    THEN [bufs |-> bufs, mem |-> m, ptr |-> Nil, buf |-> 0, panic |-> FALSE]
    ELSE LET r == monotonicBufferAlloc(bufs[i], m[i], f[i], size, alignment)
             bufs1 == [bufs EXCEPT ![i] = r.s]
             m1 == [m EXCEPT ![i] = r.m]
         IN  IF r.panic
             \* the panic leaves the loop: no later buffer is probed
             THEN [bufs |-> bufs1, mem |-> m1, ptr |-> Nil, buf |-> 0, panic |-> TRUE]
             ELSE IF r.ok
             THEN [bufs |-> bufs1, mem |-> m1, ptr |-> r.ptr, buf |-> i, panic |-> FALSE]
             ELSE monotonicArenaAllocFrom(i + 1, bufs1, m1, f, size, alignment)

monotonicArenaAlloc(bufs, m, f, size, alignment) ==
    monotonicArenaAllocFrom(1, bufs, m, f, size, alignment)

\* monotonicArena.Reset: every buffer's reset, in order
monotonicArenaReset(bufs, m, release) ==
    [bufs |-> [i \in 1..Len(bufs) |-> monotonicBufferReset(bufs[i], m[i], release).s],
     mem |-> [i \in 1..Len(bufs) |-> monotonicBufferReset(bufs[i], m[i], release).m]]

---------------------------------------------------------------------------
(* slab_arena.go: int arithmetic, no alignment parameter; each call holds   *)
(* the slab's mutex from entry to return                                    *)

newSlab(size) == [ptr |-> Nil, offset |-> 0, size |-> size]

NewSlabArena(slabSize, slabCount) == [i \in 1..slabCount |-> newSlab(slabSize)]

\* faulty variant: one byte too few is reported
slabAvailableBytesLessOne(s) == s.size - s.offset - 1

\* slab.availableBytes
slabAvailableBytes(s) == s.size - s.offset

\* slab.zeroOutBuffer
zeroOutBuffer(s) == Zeros(s.size)

\* slab.alloc
slabAlloc(s, m, fresh, size) ==
    LET s1 == IF s.ptr = Nil THEN [s EXCEPT !.ptr = fresh] ELSE s
        m1 == IF s.ptr = Nil THEN Zeros(s.size) ELSE m
    IN  IF slabAvailableBytes(s1) < size
        THEN [s |-> s1, m |-> m1, ptr |-> Nil, ok |-> FALSE]
        ELSE [s |-> [s1 EXCEPT !.offset = s1.offset + size],
              m |-> m1,
              ptr |-> s1.ptr + s1.offset,
              ok |-> TRUE]

\* faulty variant: the block is kept and zeroed whatever release says
slabResetKeepBlock(s, m, release) ==
    IF s.offset = 0
    THEN [s |-> s, m |-> m]
    ELSE [s |-> [s EXCEPT !.offset = 0], m |-> zeroOutBuffer(s)]

\* slab.reset
slabReset(s, m, release) ==
    IF s.offset = 0
    THEN [s |-> s, m |-> m]
    ELSE IF release
         THEN [s |-> [s EXCEPT !.offset = 0, !.ptr = Nil], m |-> <<>>]
         ELSE [s |-> [s EXCEPT !.offset = 0], m |-> zeroOutBuffer(s)]

\* slabArena.Alloc: the loop over a.slabs, from index i on
RECURSIVE slabArenaAllocFrom(_, _, _, _, _)
slabArenaAllocFrom(i, sl, m, f, size) ==
    IF i > Len(sl)
    THEN [bufs |-> sl, mem |-> m, ptr |-> Nil, buf |-> 0, panic |-> FALSE]
    ELSE LET r == slabAlloc(sl[i], m[i], f[i], size)
             sl1 == [sl EXCEPT ![i] = r.s]
             m1 == [m EXCEPT ![i] = r.m]
         IN  IF r.ok
             THEN [bufs |-> sl1, mem |-> m1, ptr |-> r.ptr, buf |-> i, panic |-> FALSE]
             ELSE slabArenaAllocFrom(i + 1, sl1, m1, f, size)

slabArenaAlloc(sl, m, f, size) == slabArenaAllocFrom(1, sl, m, f, size)

\* slabArena.Reset: every slab's reset, in order
slabArenaReset(sl, m, release) ==
    [bufs |-> [i \in 1..Len(sl) |-> slabReset(sl[i], m[i], release).s],
     mem |-> [i \in 1..Len(sl) |-> slabReset(sl[i], m[i], release).m]]

---------------------------------------------------------------------------
(* State and the caller's operations *)

\* the goroutines of the concurrent scenarios
Threads == {1, 2}

\* a goroutine that is not inside a call
Idle ==
    [pc |-> "idle", op |-> "none", size |-> 0, alignment |-> 1, release |-> FALSE,
     i |-> 0, off |-> 0, alignOffset |-> 0, allocSize |-> 0, ptr |-> Nil, buf |-> 0,
     panic |-> FALSE, consumed |-> 0]

NoRet ==
    [op |-> "none", size |-> 0, alignment |-> 1, release |-> FALSE,
     ptr |-> Nil, buf |-> 0, panic |-> FALSE, used |-> 0, made |-> 0,
     type |-> "", aptr |-> Nil, heap |-> FALSE, allocs |-> 0]

\* the buffer list of the arena the caller holds
Bufs == IF kind = "slab" THEN slabs ELSE buffers

\* the state after construction: no buffer has a block yet
Construct(k, bufferSize, bufferCount) ==
    /\ kind = k
    /\ buffers = IF k = "monotonic" THEN NewMonotonicArena(bufferSize, bufferCount) ELSE <<>>
    /\ slabs = IF k = "slab" THEN NewSlabArena(bufferSize, bufferCount) ELSE <<>>
    /\ mem = IF k = "nil" THEN <<>> ELSE [i \in 1..bufferCount |-> <<>>]
    /\ ret = NoRet
    /\ owned = {}
    /\ served = 0
    /\ mtx = [i \in 0..bufferCount |-> 0]
    /\ thr = [t \in Threads |-> Idle]

Init ==
    /\ \E k \in {"monotonic", "slab"}, n \in BufferCounts : Construct(k, BufSize, n)
    /\ calls = <<>>
    /\ pos = 0

\* every outcome of a.Alloc in the current state, one per choice of the runtime
AllocOutcomes(size, alignment) ==
    IF kind = "monotonic"
    THEN {monotonicArenaAlloc(buffers, mem, f, size, alignment) : f \in Layouts(buffers)}
    ELSE {slabArenaAlloc(slabs, mem, f, size) : f \in Layouts(slabs)}

\* the arena state and the caller's books after outcome r of an Alloc of size bytes
Allocated(r, size) ==
    /\ buffers' = IF kind = "monotonic" THEN r.bufs ELSE buffers
    /\ slabs' = IF kind = "slab" THEN r.bufs ELSE slabs
    /\ mem' = r.mem
    /\ owned' = IF r.ptr # Nil THEN owned \cup Block(r.ptr, size) ELSE owned
    /\ served' = IF r.ptr # Nil THEN served + size ELSE served

\* a.Alloc on the arena the caller holds; a slab arena's Alloc takes the size only
ArenaAlloc(size, alignment) ==
    /\ kind # "nil"
    /\ \E r \in AllocOutcomes(size, alignment) :
          /\ Allocated(r, size)
          /\ ret' = [NoRet EXCEPT !.op = "Alloc", !.size = size,
                                  !.alignment = IF kind = "monotonic" THEN alignment ELSE 1,
                                  !.ptr = r.ptr, !.buf = r.buf, !.panic = r.panic,
                                  !.made = Made(Bufs, r.bufs)]
    /\ UNCHANGED <<kind, mtx, thr>>

\* a.Alloc(size, alignment) on a monotonic arena
MonotonicAlloc(size, alignment) ==
    kind = "monotonic" /\ ArenaAlloc(size, alignment) /\ UNCHANGED <<calls, pos>>

\* a.Alloc(size) on a slab arena
SlabAlloc(size) ==
    kind = "slab" /\ ArenaAlloc(size, 1) /\ UNCHANGED <<calls, pos>>

\* a.Reset(release) on either arena
ArenaReset(release) ==
    /\ kind # "nil"
    /\ \E r \in {IF kind = "monotonic" THEN monotonicArenaReset(buffers, mem, release)
                                       ELSE slabArenaReset(slabs, mem, release)} :
          /\ buffers' = IF kind = "monotonic" THEN r.bufs ELSE buffers
          /\ slabs' = IF kind = "slab" THEN r.bufs ELSE slabs
          /\ mem' = r.mem
    /\ ret' = [NoRet EXCEPT !.op = "Reset", !.release = release,
                            !.used = Cardinality({i \in 1..Len(Bufs) : Bufs[i].offset > 0})]
    /\ owned' = {}
    /\ served' = 0
    /\ UNCHANGED <<kind, mtx, thr>>

Reset(release) == ArenaReset(release) /\ UNCHANGED <<calls, pos>>

Next ==
    \/ \E size \in Sizes, alignment \in Aligns : MonotonicAlloc(size, alignment)
    \/ \E size \in SlabSizes : SlabAlloc(size)
    \/ \E release \in BOOLEAN : Reset(release)

Spec == Init /\ [][Next]_vars

---------------------------------------------------------------------------
(* arena.go: New[T] *)

\* the types T the caller instantiates New with: unsafe.Sizeof and unsafe.Alignof
Types ==
    { [name |-> "struct{}", size |-> 0, align |-> 1],
      [name |-> "byte", size |-> 1, align |-> 1],
      [name |-> "int16", size |-> 2, align |-> 2],
      [name |-> "int32", size |-> 4, align |-> 4] }

\* buffer sizes passed to the constructors in the New[T] scenarios
NewBufSizes == {2, 4}

\* the addresses new(T) may return: aligned, outside every block of the arena
GoNew(T) == {h \in (HeapTop(Bufs) + 1)..(HeapTop(Bufs) + 4) : h % T.align = 0}

\* faulty variant: the result of Alloc is returned without the nil check
NewNoFallback(a, aptr, h) ==
    IF a # "nil"
    THEN [ptr |-> aptr, aptr |-> aptr, heap |-> FALSE, allocs |-> 1]
    ELSE [ptr |-> h, aptr |-> Nil, heap |-> TRUE, allocs |-> 0]

\* New[T](a): aptr is what a.Alloc(unsafe.Sizeof(x), unsafe.Alignof(x)) returns
\* when a is not nil, h is what new(T) returns when it is reached
New(a, aptr, h) ==
    IF a # "nil"
    THEN IF aptr # Nil
         THEN [ptr |-> aptr, aptr |-> aptr, heap |-> FALSE, allocs |-> 1]
         ELSE [ptr |-> h, aptr |-> aptr, heap |-> TRUE, allocs |-> 1]
    ELSE [ptr |-> h, aptr |-> Nil, heap |-> TRUE, allocs |-> 0]

\* the caller's call New[T](a), recorded in calls
NewCall(T) ==
    /\ Len(calls) < MaxCalls
    /\ \E r \in IF kind = "nil"
                THEN {[bufs |-> <<>>, mem |-> mem, ptr |-> Nil, buf |-> 0, panic |-> FALSE]}
                ELSE AllocOutcomes(T.size, T.align) :
       \E h \in IF kind # "nil" /\ r.ptr # Nil THEN {Nil} ELSE GoNew(T) :
       \E n \in {New(kind, r.ptr, h)} :
          /\ Allocated(r, T.size)
          /\ ret' = [NoRet EXCEPT !.op = "New", !.type = T.name,
                                  !.size = T.size, !.alignment = T.align,
                                  !.ptr = n.ptr, !.aptr = n.aptr, !.heap = n.heap,
                                  !.allocs = n.allocs, !.buf = r.buf, !.panic = r.panic,
                                  !.made = Made(Bufs, r.bufs)]
          /\ calls' = Append(calls, [type |-> T.name, heap |-> n.heap])
    /\ UNCHANGED <<kind, pos, mtx, thr>>

\* Reset between two recorded runs of New[T] calls
NewReset(release) == ArenaReset(release) /\ calls' = <<>> /\ UNCHANGED pos

InitNew ==
    /\ \/ Construct("nil", 0, 0)
       \/ \E k \in {"monotonic", "slab"}, n \in BufferCounts, size \in NewBufSizes :
             Construct(k, size, n)
    /\ calls = <<>>
    /\ pos = 0

NextNew ==
    \/ \E T \in Types : NewCall(T)
    \/ \E release \in BOOLEAN : NewReset(release)

SpecNew == InitNew /\ [][NextNew]_vars

---------------------------------------------------------------------------
(* arena.go: MakeSlice; SliceAppend and growSlice.  A slice is a record:     *)
(* ptr, the address of its backing array; len and cap; arr, the cap elements *)
(* of the backing array (0 is the zero value of T); heap, whether the array  *)
(* came from make or append rather than from the arena.  calls holds the     *)
(* slice variable s of the caller, ret the last call: its arguments, the     *)
(* request it passed to Alloc (asize, aalign; allocs counts the Alloc calls) *)
(* and its result res.                                                       *)

growThreshold == 256

\* the width of the type int in bits, and its range
IntBits == 11
IntMod == 2 ^ IntBits
MaxInt == (IntMod \div 2) - 1

\* the element values the caller appends
Elems == {1, 2}

\* the data arguments of SliceAppend
Datas == {<<>>} \cup {<<x>> : x \in Elems} \cup {e \in Elems \X Elems : e[1] < e[2]}

\* var s []T
NilSlice(T) == [ptr |-> Nil, len |-> 0, cap |-> 0, arr |-> <<>>, heap |-> TRUE, type |-> T.name]

TypeOf(name) == CHOOSE T \in Types : T.name = name

\* the elements s[0], ..., s[len(s)-1]
Elements(s) == SubSeq(s.arr, 1, s.len)

\* faulty variant: the element size is left out of the request
MakeSliceRequestNoSize(T, cap) == [size |-> cap % UintMod, alignment |-> T.align]

\* MakeSlice: bufSize := int(unsafe.Sizeof(x)) * cap and the arguments of
\* a.Alloc(uintptr(bufSize), unsafe.Alignof(x))
MakeSliceRequest(T, cap) == [size |-> (T.size * cap) % UintMod, alignment |-> T.align]

\* MakeSlice[T](a, len, cap): aptr is what a.Alloc returned when a is not nil,
\* h is the address of the array make([]T, len, cap) returns when it is reached
MakeSlice(a, aptr, h, T, len, cap) ==
    IF a # "nil" /\ aptr # Nil
    THEN [ptr |-> aptr, len |-> len, cap |-> cap, arr |-> Zeros(cap), heap |-> FALSE,
          type |-> T.name]
    ELSE [ptr |-> h, len |-> len, cap |-> cap, arr |-> Zeros(cap), heap |-> TRUE,
          type |-> T.name]

\* faulty variant: nothing is copied
copyNone(dst, src) == dst

\* the builtin copy(dst, src)
copy(dst, src) ==
    [dst EXCEPT !.arr = [k \in 1..dst.cap |->
                            IF k <= dst.len /\ k <= src.len THEN src.arr[k] ELSE dst.arr[k]]]

\* the builtin append(s, data...): in place when the capacity suffices,
\* otherwise into a new array of capacity c at address h
append(s, data, h, c) ==
    IF s.len + Len(data) <= s.cap
    THEN [s EXCEPT !.len = s.len + Len(data),
                   !.arr = [k \in 1..s.cap |->
                               IF s.len < k /\ k <= s.len + Len(data)
                               THEN data[k - s.len] ELSE s.arr[k]]]
    ELSE [ptr |-> h, len |-> s.len + Len(data), cap |-> c, heap |-> TRUE, type |-> s.type,
          arr |-> [k \in 1..c |->
                      IF k <= s.len THEN s.arr[k]
                      ELSE IF k <= s.len + Len(data) THEN data[k - s.len] ELSE 0]]

\* the value of type int that the integer x wraps to, in two's complement
IntWrap(x) ==
    LET m == x % IntMod
    IN  IF m > MaxInt THEN m - IntMod ELSE m

\* growSlice, one iteration of the loop:
\* if newCap < growThreshold { newCap *= 2 } else { newCap += newCap / 4 }
\* (the division has a dividend of at least growThreshold, so it does not round
\* towards a negative number)
growStep(newCap) ==
    IF newCap < growThreshold THEN IntWrap(newCap * 2)
                              ELSE IntWrap(newCap + (newCap \div 4))

\* growSlice: for newLen > newCap { ... }
RECURSIVE growLoop(_, _)
growLoop(newLen, newCap) ==
    IF newLen > newCap THEN growLoop(newLen, growStep(newCap)) ELSE newCap

\* faulty variant: room for one element more than asked is looked for
growCapOneMore(s, dataLen) ==
    IF s.cap > 0 THEN growLoop(IntWrap(s.len + dataLen + 1), s.cap) ELSE dataLen

\* growSlice: the capacity the slice must have for dataLen more elements
growCap(s, dataLen) ==
    IF s.cap > 0 THEN growLoop(IntWrap(s.len + dataLen), s.cap) ELSE dataLen

\* the addresses of the bytes of the backing array of the slice s
Storage(s) == {s.ptr + k : k \in 0..(s.cap * TypeOf(s.type).size - 1)}

\* the address of the array that make([]T, len, cap) or append returns: above
\* the arena's blocks there is room for two arrays, each at an address that is
\* aligned for every T; the array of s is still in use, the new array is the
\* other one
GoMake(T, s) ==
    LET first == CHOOSE h \in (HeapTop(Bufs) + 1)..(HeapTop(Bufs) + 8) : h % 8 = 0
        second == first + 8 * MaxLen
    IN  {IF s.ptr = first THEN second ELSE first}

\* what a.Alloc(q.size, q.alignment) returns to a helper, nothing when a is nil
HelperAlloc(q) ==
    IF kind = "nil"
    THEN {[bufs |-> <<>>, mem |-> mem, ptr |-> Nil, buf |-> 0, panic |-> FALSE]}
    ELSE AllocOutcomes(q.size, q.alignment)

\* the caller's statement s = MakeSlice[T](a, len, cap)
MakeSliceCall(T, len, cap) ==
    /\ T.name = calls.type
    /\ \E q \in {MakeSliceRequest(T, cap)} :
       \E r \in HelperAlloc(q) :
       \E h \in IF kind # "nil" /\ r.ptr # Nil THEN {Nil} ELSE GoMake(T, calls) :
       \E res \in {MakeSlice(kind, r.ptr, h, T, len, cap)} :
          /\ Allocated(r, q.size)
          /\ calls' = res
          /\ ret' = [op |-> "MakeSlice", len |-> len, cap |-> cap, s |-> calls, data |-> <<>>,
                     allocs |-> IF kind = "nil" THEN 0 ELSE 1,
                     asize |-> q.size, aalign |-> q.alignment, aptr |-> r.ptr,
                     panic |-> r.panic, res |-> res]
    /\ UNCHANGED <<kind, pos, mtx, thr>>

\* the caller's statement s = SliceAppend(a, s, data...)
SliceAppendCall(data) ==
    /\ calls.len + Len(data) <= MaxLen
    /\ \E T \in {TypeOf(calls.type)} :
       \E newCap \in {growCap(calls, Len(data))} :
       IF kind = "nil"
       \* return append(s, data...)
       THEN \E h \in GoMake(T, calls) :
            \E c \in {calls.len + Len(data), MaxLen} :
            \E res \in {append(calls, data, h, c)} :
               /\ calls' = res
               /\ ret' = [op |-> "SliceAppend", len |-> 0, cap |-> 0, s |-> calls, data |-> data,
                          allocs |-> 0, asize |-> 0, aalign |-> 1, aptr |-> Nil,
                          panic |-> FALSE, res |-> res]
               /\ UNCHANGED <<buffers, slabs, mem, owned, served>>
       ELSE IF newCap = calls.cap
       \* growSlice returns s; append stores into the spare capacity
       THEN \E res \in {append(calls, data, Nil, 0)} :
               /\ calls' = res
               /\ ret' = [op |-> "SliceAppend", len |-> 0, cap |-> 0, s |-> calls, data |-> data,
                          allocs |-> 0, asize |-> 0, aalign |-> 1, aptr |-> Nil,
                          panic |-> FALSE, res |-> res]
               /\ UNCHANGED <<buffers, slabs, mem, owned, served>>
       \* s2 := MakeSlice[T](a, len(s), newCap); copy(s2, s); append(s2, data...)
       ELSE \E q \in {MakeSliceRequest(T, newCap)} :
            \E r \in HelperAlloc(q) :
            \E h \in IF r.ptr # Nil THEN {Nil} ELSE GoMake(T, calls) :
            \E s2 \in {copy(MakeSlice(kind, r.ptr, h, T, calls.len, newCap), calls)} :
            \E res \in {append(s2, data, Nil, 0)} :
               /\ Allocated(r, q.size)
               /\ calls' = res
               /\ ret' = [op |-> "SliceAppend", len |-> calls.len, cap |-> newCap, s |-> calls,
                          data |-> data, allocs |-> 1, asize |-> q.size, aalign |-> q.alignment,
                          aptr |-> r.ptr, panic |-> r.panic, res |-> res]
    /\ UNCHANGED <<kind, pos, mtx, thr>>

\* a.Reset(release), after which the caller starts over with var s []T
SliceReset(release) ==
    /\ kind = "monotonic"
    /\ \E r \in {monotonicArenaReset(buffers, mem, release)} :
          /\ buffers' = r.bufs
          /\ mem' = r.mem
    /\ UNCHANGED slabs
    /\ ret' = [op |-> "Reset", len |-> 0, cap |-> 0, s |-> calls, data |-> <<>>,
               allocs |-> 0, asize |-> 0, aalign |-> 1, aptr |-> Nil, panic |-> FALSE,
               res |-> NilSlice(TypeOf(calls.type))]
    /\ calls' = NilSlice(TypeOf(calls.type))
    /\ owned' = {}
    /\ served' = 0
    /\ UNCHANGED <<kind, pos, mtx, thr>>

\* a nil arena, or a monotonic arena of one buffer with room for a byte
\* slice of the largest capacity and one byte more
InitSlice ==
    /\ \/ Construct("nil", 0, 0)
       \/ Construct("monotonic", MaxLen + 1, 1)
    /\ \E T \in Types : calls = NilSlice(T)
    /\ pos = 0

NextSlice ==
    \/ \E T \in Types, cap \in 0..MaxLen : \E len \in 0..cap : MakeSliceCall(T, len, cap)
    \/ \E data \in Datas : SliceAppendCall(data)
    \/ \E release \in BOOLEAN : SliceReset(release)

SpecSlice == InitSlice /\ [][NextSlice]_vars

---------------------------------------------------------------------------
(* growSlice, the loop of lines 19-32 step by step: the caller passes a slice *)
(* of length len and capacity cap and dataLen elements to append; ret holds  *)
(* the locals newLen and newCap, and done once line 33 is reached            *)

\* capacities of the slice passed in: none, small ones, around the threshold
\* and up to the largest int
GrowCaps ==
    {0, 1, 2, 3, growThreshold - 1, growThreshold, growThreshold + 1,
     MaxInt \div 2, MaxInt - 1, MaxInt}

\* newLen := len(s) + dataLen; newCap := cap(s)
GrowEntry(len, cap, dataLen) ==
    [op |-> "growSlice", len |-> len, cap |-> cap, dataLen |-> dataLen,
     newLen |-> IntWrap(len + dataLen), newCap |-> cap, done |-> FALSE]

\* one iteration of for newLen > newCap { ... }
GrowIterate ==
    /\ ret.op = "growSlice" /\ ~ret.done
    /\ ret.cap > 0
    /\ ret.newLen > ret.newCap
    /\ ret' = [ret EXCEPT !.newCap = growStep(ret.newCap)]
    /\ UNCHANGED <<kind, buffers, slabs, mem, owned, served, calls, pos, mtx, thr>>

\* the loop is left, or newCap = dataLen for a slice without capacity
GrowExit ==
    /\ ret.op = "growSlice" /\ ~ret.done
    /\ ret.cap > 0 => ret.newLen <= ret.newCap
    /\ ret' = [ret EXCEPT !.newCap = IF ret.cap > 0 THEN ret.newCap ELSE ret.dataLen,
                          !.done = TRUE]
    /\ UNCHANGED <<kind, buffers, slabs, mem, owned, served, calls, pos, mtx, thr>>

InitGrow ==
    /\ kind = "nil"
    /\ buffers = <<>> /\ slabs = <<>> /\ mem = <<>>
    /\ owned = {} /\ served = 0
    /\ mtx = [i \in 0..0 |-> 0]
    /\ thr = [t \in Threads |-> Idle]
    /\ calls = {}
    /\ pos = 0
    /\ \E cap \in GrowCaps : \E len \in {0, cap} : \E dataLen \in 0..MaxInt :
          ret = GrowEntry(len, cap, dataLen)

NextGrow == GrowIterate \/ GrowExit

\* the goroutine that runs growSlice keeps running
SpecGrowFair == InitGrow /\ [][NextGrow]_vars /\ WF_vars(NextGrow)

---------------------------------------------------------------------------
(* Replay scenario: the caller records the Alloc calls of one generation,    *)
(* calls Reset(false) and issues the same calls again                        *)

\* the requests the caller draws from: with and without padding, and one that
\* fills a whole buffer
ReplayRequests ==
    { [size |-> 1, alignment |-> 1], [size |-> 2, alignment |-> 2],
      [size |-> 1, alignment |-> 4], [size |-> BufSize, alignment |-> 1] }

\* an Alloc of the generation being recorded
RecordAlloc(q) ==
    /\ pos = 0
    /\ Len(calls) < MaxCalls
    /\ ArenaAlloc(q.size, q.alignment)
    /\ calls' = Append(calls, [size |-> q.size, alignment |-> q.alignment, ptr |-> ret'.ptr])
    /\ UNCHANGED pos

\* a Reset after which the caller starts a new record
StartOver(release) ==
    /\ ArenaReset(release)
    /\ calls' = <<>>
    /\ pos' = 0

\* Reset(false) at the end of the recorded generation
ResetKeep ==
    /\ pos = 0
    /\ calls # <<>>
    /\ ArenaReset(FALSE)
    /\ pos' = 1
    /\ UNCHANGED calls

\* the next recorded call, issued again
ReplayAlloc ==
    /\ pos \in 1..Len(calls)
    /\ ArenaAlloc(calls[pos].size, calls[pos].alignment)
    /\ pos' = pos + 1
    /\ UNCHANGED calls

InitReplay ==
    /\ \E k \in {"monotonic", "slab"}, n \in BufferCounts : Construct(k, BufSize, n)
    /\ calls = <<>>
    /\ pos = 0

NextReplay ==
    \/ \E q \in ReplayRequests : RecordAlloc(q)
    \/ \E release \in BOOLEAN : StartOver(release)
    \/ ResetKeep
    \/ ReplayAlloc

SpecReplay == InitReplay /\ [][NextReplay]_vars

---------------------------------------------------------------------------
(* Dirty-memory scenario: the caller stores non-zero bytes into the ranges   *)
(* it was given; calls holds the addresses of the blocks still held by the   *)
(* arena that the caller had overwritten before the last Reset               *)

\* the requests of the scenario
DirtyRequests ==
    { [size |-> 1, alignment |-> 1], [size |-> 2, alignment |-> 2],
      [size |-> BufSize, alignment |-> 1] }

\* the index of the buffer whose block holds address a
BufferOf(bufs, a) ==
    CHOOSE i \in 1..Len(bufs) : bufs[i].ptr # Nil /\ a \in Block(bufs[i].ptr, bufs[i].size)

\* the byte stored at address a of a block of the arena
ByteAt(bufs, m, a) == m[BufferOf(bufs, a)][a - bufs[BufferOf(bufs, a)].ptr + 1]

\* all addresses of the blocks the buffers hold
Held(bufs) ==
    UNION {Block(bufs[i].ptr, bufs[i].size) : i \in {j \in 1..Len(bufs) : bufs[j].ptr # Nil}}

DirtyAlloc(q) == ArenaAlloc(q.size, q.alignment) /\ UNCHANGED <<calls, pos>>

\* the caller fills every range it was given with non-zero bytes
Store ==
    /\ owned # {}
    /\ mem' = [i \in 1..Len(Bufs) |->
                 [k \in 1..Len(mem[i]) |->
                     IF Bufs[i].ptr + k - 1 \in owned THEN 1 ELSE mem[i][k]]]
    /\ ret' = [NoRet EXCEPT !.op = "Store"]
    /\ UNCHANGED <<kind, buffers, slabs, owned, served, calls, pos, mtx, thr>>

DirtyReset(release) ==
    /\ ArenaReset(release)
    /\ calls' = {a \in Held(Bufs') : a \in calls \/ ByteAt(Bufs, mem, a) # 0}
    /\ UNCHANGED pos

InitDirty ==
    /\ \E k \in {"monotonic", "slab"}, n \in BufferCounts : Construct(k, BufSize, n)
    /\ calls = {}
    /\ pos = 0

NextDirty ==
    \/ \E q \in DirtyRequests : DirtyAlloc(q)
    \/ Store
    \/ \E release \in BOOLEAN : DirtyReset(release)

SpecDirty == InitDirty /\ [][NextDirty]_vars

---------------------------------------------------------------------------
(* Scrub scenario: as the dirty-memory scenario, without the caller's record *)
(* of overwritten addresses, and with requests that are refused              *)

\* a request without padding, one with padding, and one that no buffer holds
ScrubRequests ==
    { [size |-> 1, alignment |-> 1], [size |-> 2, alignment |-> 2],
      [size |-> BufSize + 1, alignment |-> 1] }

NextScrub ==
    \/ \E q \in ScrubRequests : DirtyAlloc(q)
    \/ Store
    \/ \E release \in BOOLEAN : Reset(release)

SpecScrub == Init /\ [][NextScrub]_vars

---------------------------------------------------------------------------
(* Side-by-side scenario: a monotonic arena and a slab arena of the same     *)
(* buffer count and size receive the same calls from one caller.  pos holds  *)
(* the base that make returns for buffer i, the same for both arenas; mem is *)
(* the pair of their contents; calls holds what the last call returned from  *)
(* each arena.  slabArena.Alloc has no alignment parameter: the caller       *)
(* passes it the size only.                                                  *)

PairAlloc(size, alignment) ==
    /\ kind = "pair"
    /\ \E m \in {monotonicArenaAlloc(buffers, mem[1], pos, size, alignment)} :
       \E sl \in {slabArenaAlloc(slabs, mem[2], pos, size)} :
          /\ buffers' = m.bufs
          /\ slabs' = sl.bufs
          /\ mem' = <<m.mem, sl.mem>>
          /\ calls' = [m |-> [ptr |-> m.ptr, buf |-> m.buf], s |-> [ptr |-> sl.ptr, buf |-> sl.buf]]
    /\ ret' = [NoRet EXCEPT !.op = "Alloc", !.size = size, !.alignment = alignment]
    /\ UNCHANGED <<kind, owned, served, pos, mtx, thr>>

PairReset(release) ==
    /\ kind = "pair"
    /\ \E m \in {monotonicArenaReset(buffers, mem[1], release)} :
       \E sl \in {slabArenaReset(slabs, mem[2], release)} :
          /\ buffers' = m.bufs
          /\ slabs' = sl.bufs
          /\ mem' = <<m.mem, sl.mem>>
    /\ calls' = [m |-> [ptr |-> Nil, buf |-> 0], s |-> [ptr |-> Nil, buf |-> 0]]
    /\ ret' = [NoRet EXCEPT !.op = "Reset", !.release = release]
    /\ UNCHANGED <<kind, owned, served, pos, mtx, thr>>

InitPair ==
    /\ kind = "pair"
    /\ \E n \in BufferCounts :
          /\ buffers = NewMonotonicArena(BufSize, n)
          /\ slabs = NewSlabArena(BufSize, n)
          /\ mem = <<[i \in 1..n |-> <<>>], [i \in 1..n |-> <<>>]>>
          /\ pos \in Layouts(buffers)
          /\ mtx = [i \in 0..n |-> 0]
    /\ calls = [m |-> [ptr |-> Nil, buf |-> 0], s |-> [ptr |-> Nil, buf |-> 0]]
    /\ ret = NoRet
    /\ owned = {}
    /\ served = 0
    /\ thr = [t \in Threads |-> Idle]

NextPair ==
    \/ \E size \in SlabSizes, alignment \in Aligns : PairAlloc(size, alignment)
    \/ \E release \in BOOLEAN : PairReset(release)

SpecPair == InitPair /\ [][NextPair]_vars

---------------------------------------------------------------------------
(* concurrent_arena.go and goroutines.  Several goroutines call into one     *)
(* arena: a concurrentArena around a monotonic arena (kind "concurrent"), a  *)
(* slab arena, or a monotonic arena with no wrapper.  A call is a sequence   *)
(* of steps; steps of different goroutines interleave.  pos counts the calls *)
(* started, calls is the set of operations started so far, and               *)
(* thr[t].consumed adds up the bytes (size + padding) of t's successful      *)
(* allocations since the last Reset.                                         *)
(*                                                                           *)
(* The monotonic buffer's offset is read at lines 29, 34, 37 and 38 with no  *)
(* synchronisation: each of these reads yields either the value the          *)
(* goroutine loaded before (kept in a register) or the value now in memory.  *)
(* The lazy make of lines 24-27 is one step.  A store through a pointer that *)
(* a race has moved past the end of the block is not recorded in mem.        *)

\* the requests the goroutines draw from: with and without padding, one that
\* fills a buffer, and the largest uintptr
ConcRequests ==
    { [size |-> 1, alignment |-> 1], [size |-> 2, alignment |-> 2],
      [size |-> BufSize, alignment |-> 1], [size |-> UintMod - 1, alignment |-> 4] }

\* faulty variant: Lock returns although the mutex is held
mutexFreeAlways(m) == TRUE

\* sync.Mutex.Lock returns only when the mutex is unlocked
mutexFree(m) == m = 0

\* faulty variant: every call starts at a mutex
EntryLocked(op) == "lock"

\* the first step of a call on the arena the goroutines share
Entry(op) ==
    IF kind = "concurrent" THEN "lock"
    ELSE IF kind = "slab" THEN "slock"
    ELSE IF op = "Alloc" THEN "probe" ELSE "reset"

\* the step after the inner call has returned
Exit == IF kind = "concurrent" THEN "unlock" ELSE "return"

\* the values a read of buffers[i].offset by goroutine t can yield
OffsetReads(t) == {thr[t].off, buffers[thr[t].i].offset}

\* goroutine t calls a.Alloc(q.size, q.alignment)
CallAlloc(t, q) ==
    /\ thr[t].pc = "idle"
    /\ pos < MaxCalls
    /\ pos' = pos + 1
    /\ calls' = calls \cup {"Alloc"}
    /\ thr' = [thr EXCEPT ![t] = [@ EXCEPT !.pc = Entry("Alloc"), !.op = "Alloc", !.i = 1,
                                            !.size = q.size, !.alignment = q.alignment]]
    /\ UNCHANGED <<kind, buffers, slabs, mem, ret, owned, served, mtx>>

\* goroutine t calls a.Reset(release) on the concurrentArena
CallReset(t, release) ==
    /\ kind = "concurrent"
    /\ thr[t].pc = "idle"
    /\ pos < MaxCalls
    /\ pos' = pos + 1
    /\ calls' = calls \cup {"Reset"}
    /\ thr' = [thr EXCEPT ![t] = [@ EXCEPT !.pc = Entry("Reset"), !.op = "Reset", !.i = 1,
                                            !.release = release]]
    /\ UNCHANGED <<kind, buffers, slabs, mem, ret, owned, served, mtx>>

\* concurrentArena.Alloc / Reset: a.mtx.Lock()
WLock(t) ==
    /\ thr[t].pc = "lock"
    /\ mutexFree(mtx[0])
    /\ mtx' = [mtx EXCEPT ![0] = t]
    /\ thr' = [thr EXCEPT ![t].pc = IF thr[t].op = "Alloc" THEN "probe" ELSE "reset"]
    /\ UNCHANGED <<kind, buffers, slabs, mem, ret, owned, served, calls, pos>>

\* concurrentArena.Alloc / Reset: a.mtx.Unlock()
WUnlock(t) ==
    /\ thr[t].pc = "unlock"
    /\ mtx' = [mtx EXCEPT ![0] = 0]
    /\ thr' = [thr EXCEPT ![t].pc = "return"]
    /\ UNCHANGED <<kind, buffers, slabs, mem, ret, owned, served, calls, pos>>

\* monotonicArena.Alloc, loop head, and monotonicBuffer.alloc lines 24-32:
\* the lazy make, the alignment loop and allocSize
MProbe(t) ==
    /\ thr[t].pc = "probe"
    /\ IF thr[t].i > Len(buffers)
       THEN /\ thr' = [thr EXCEPT ![t] = [@ EXCEPT !.pc = Exit, !.ptr = Nil, !.buf = 0]]
            /\ UNCHANGED <<buffers, mem>>
       ELSE \E f \in Layouts(buffers) :
            \E i \in {thr[t].i} :
            \E s1 \in {IF buffers[i].ptr = Nil THEN [buffers[i] EXCEPT !.ptr = f[i]]
                                                ELSE buffers[i]} :
            \E alignOffset \in {alignLoop((s1.ptr + s1.offset) % UintMod, thr[t].alignment, 0)} :
                /\ buffers' = [buffers EXCEPT ![i] = s1]
                /\ mem' = IF buffers[i].ptr = Nil THEN [mem EXCEPT ![i] = Zeros(s1.size)] ELSE mem
                /\ thr' = [thr EXCEPT ![t] = [@ EXCEPT !.pc = "check", !.off = s1.offset,
                                 !.alignOffset = alignOffset,
                                 !.allocSize = allocSizeOf(thr[t].size, alignOffset)]]
    /\ UNCHANGED <<kind, slabs, ret, owned, served, calls, pos, mtx>>

\* monotonicBuffer.alloc lines 34-36: the capacity check
MCheck(t) ==
    /\ thr[t].pc = "check"
    /\ \E o \in OffsetReads(t) :
          thr' = [thr EXCEPT ![t] =
                    IF noRoom([buffers[thr[t].i] EXCEPT !.offset = o], thr[t].allocSize)
                    THEN [@ EXCEPT !.pc = "probe", !.i = @ + 1, !.off = 0,
                                   !.alignOffset = 0, !.allocSize = 0]
                    ELSE [@ EXCEPT !.pc = "ptr", !.off = o]]
    /\ UNCHANGED <<kind, buffers, slabs, mem, ret, owned, served, calls, pos, mtx>>

\* monotonicBuffer.alloc line 37: the address to return
MPtr(t) ==
    /\ thr[t].pc = "ptr"
    /\ \E o \in OffsetReads(t) :
          thr' = [thr EXCEPT ![t] =
                    [@ EXCEPT !.pc = "bump", !.off = o,
                              !.ptr = allocPtr([buffers[thr[t].i] EXCEPT !.offset = o],
                                               thr[t].alignOffset)]]
    /\ UNCHANGED <<kind, buffers, slabs, mem, ret, owned, served, calls, pos, mtx>>

\* monotonicBuffer.alloc line 38: s.offset += allocSize, a load and a store
MBump(t) ==
    /\ thr[t].pc = "bump"
    /\ \E o \in OffsetReads(t) :
          buffers' = [buffers EXCEPT ![thr[t].i].offset = (o + thr[t].allocSize) % UintMod]
    /\ thr' = [thr EXCEPT ![t] = [@ EXCEPT !.pc = "clear", !.off = 0]]
    /\ UNCHANGED <<kind, slabs, mem, ret, owned, served, calls, pos, mtx>>

\* monotonicBuffer.alloc lines 40-50: the range is cleared and returned
MClear(t) ==
    /\ thr[t].pc = "clear"
    /\ \E i \in {thr[t].i} :
       IF slicePanics(thr[t].ptr, thr[t].size)
       \* unsafe.Slice panics: the call is left at once, with no Unlock on the way
       THEN /\ thr' = [thr EXCEPT ![t] = [@ EXCEPT !.pc = "return", !.ptr = Nil, !.panic = TRUE]]
            /\ UNCHANGED <<mem, owned, served>>
       ELSE /\ mem' = [mem EXCEPT ![i] = clear(@, thr[t].ptr - buffers[i].ptr, thr[t].size)]
            /\ owned' = owned \cup Block(thr[t].ptr, thr[t].size)
            /\ served' = served + thr[t].size
            /\ thr' = [thr EXCEPT ![t] = [@ EXCEPT !.pc = Exit, !.buf = i,
                                                    !.consumed = @ + thr[t].allocSize]]
    /\ UNCHANGED <<kind, buffers, slabs, ret, calls, pos, mtx>>

\* monotonicArena.Reset: one iteration of the loop, s.reset(release)
MReset(t) ==
    /\ thr[t].pc = "reset"
    /\ \E i \in {thr[t].i} :
       \E r \in {monotonicBufferReset(buffers[i], mem[i], thr[t].release)} :
          /\ buffers' = [buffers EXCEPT ![i] = r.s]
          /\ mem' = [mem EXCEPT ![i] = r.m]
          /\ owned' = owned \ Block(buffers[i].ptr, buffers[i].size)
          /\ served' = IF i = Len(buffers) THEN 0 ELSE served
          /\ thr' = [u \in Threads |->
                        IF u = t
                        THEN [thr[t] EXCEPT !.pc = IF i = Len(buffers) THEN Exit ELSE "reset",
                                            !.i = i + 1,
                                            !.consumed = IF i = Len(buffers) THEN 0 ELSE @]
                        ELSE [thr[u] EXCEPT !.consumed = IF i = Len(buffers) THEN 0 ELSE @]]
    /\ UNCHANGED <<kind, slabs, ret, calls, pos, mtx>>

\* slab.alloc: s.mtx.Lock()
SLock(t) ==
    /\ thr[t].pc = "slock"
    /\ mutexFree(mtx[thr[t].i])
    /\ mtx' = [mtx EXCEPT ![thr[t].i] = t]
    /\ thr' = [thr EXCEPT ![t].pc = "sbody"]
    /\ UNCHANGED <<kind, buffers, slabs, mem, ret, owned, served, calls, pos>>

\* slab.alloc: the body, executed with s.mtx held
SBody(t) ==
    /\ thr[t].pc = "sbody"
    /\ \E f \in Layouts(slabs) :
       \E i \in {thr[t].i} :
       \E r \in {slabAlloc(slabs[i], mem[i], f[i], thr[t].size)} :
          /\ slabs' = [slabs EXCEPT ![i] = r.s]
          /\ mem' = [mem EXCEPT ![i] = r.m]
          /\ owned' = IF r.ok THEN owned \cup Block(r.ptr, thr[t].size) ELSE owned
          /\ served' = IF r.ok THEN served + thr[t].size ELSE served
          /\ thr' = [thr EXCEPT ![t] = [@ EXCEPT !.pc = "sunlock", !.ptr = r.ptr,
                           !.buf = IF r.ok THEN i ELSE 0,
                           !.consumed = IF r.ok THEN @ + thr[t].size ELSE @]]
    /\ UNCHANGED <<kind, buffers, ret, calls, pos, mtx>>

\* slab.alloc: the deferred s.mtx.Unlock(), then slabArena.Alloc's loop
SUnlock(t) ==
    /\ thr[t].pc = "sunlock"
    /\ mtx' = [mtx EXCEPT ![thr[t].i] = 0]
    /\ thr' = [thr EXCEPT ![t] =
                  IF thr[t].ptr # Nil \/ thr[t].i = Len(slabs)
                  THEN [@ EXCEPT !.pc = "return"]
                  ELSE [@ EXCEPT !.pc = "slock", !.i = @ + 1]]
    /\ UNCHANGED <<kind, buffers, slabs, mem, ret, owned, served, calls, pos>>

\* the call returns to goroutine t, or its panic is recovered there
Return(t) ==
    /\ thr[t].pc = "return"
    /\ ret' = [NoRet EXCEPT !.op = thr[t].op, !.ptr = thr[t].ptr, !.panic = thr[t].panic]
    /\ thr' = [thr EXCEPT ![t] = [Idle EXCEPT !.consumed = thr[t].consumed]]
    /\ UNCHANGED <<kind, buffers, slabs, mem, owned, served, calls, pos, mtx>>

\* the construction of the shared arena; a concurrentArena wraps a monotonic arena
ConstructShared(k, bufferSize, bufferCount) ==
    /\ kind = k
    /\ buffers = IF k = "slab" THEN <<>> ELSE NewMonotonicArena(bufferSize, bufferCount)
    /\ slabs = IF k = "slab" THEN NewSlabArena(bufferSize, bufferCount) ELSE <<>>
    /\ mem = [i \in 1..bufferCount |-> <<>>]
    /\ ret = NoRet
    /\ owned = {}
    /\ served = 0
    /\ mtx = [i \in 0..bufferCount |-> 0]
    /\ thr = [t \in Threads |-> Idle]
    /\ calls = {}
    /\ pos = 0

InitConc == \E k \in {"concurrent", "slab"}, n \in BufferCounts : ConstructShared(k, BufSize, n)

NextConc ==
    \/ \E t \in Threads, q \in ConcRequests : CallAlloc(t, q)
    \/ \E t \in Threads, release \in BOOLEAN : CallReset(t, release)
    \/ \E t \in Threads : WLock(t)
    \/ \E t \in Threads : MProbe(t)
    \/ \E t \in Threads : MCheck(t)
    \/ \E t \in Threads : MPtr(t)
    \/ \E t \in Threads : MBump(t)
    \/ \E t \in Threads : MClear(t)
    \/ \E t \in Threads : MReset(t)
    \/ \E t \in Threads : WUnlock(t)
    \/ \E t \in Threads : SLock(t)
    \/ \E t \in Threads : SBody(t)
    \/ \E t \in Threads : SUnlock(t)
    \/ \E t \in Threads : Return(t)

SpecConc == InitConc /\ [][NextConc]_vars

\* goroutines calling Alloc and Reset on a concurrentArena under a fair
\* scheduler: a goroutine that can run, or that waits at a mutex that stays
\* unlocked, does take its next step
InitWrap == ConstructShared("concurrent", BufSize, 1)

\* the next step of goroutine t inside a call
WStep(t) ==
    WLock(t) \/ MProbe(t) \/ MCheck(t) \/ MPtr(t) \/ MBump(t) \/ MClear(t) \/ MReset(t)
        \/ WUnlock(t) \/ Return(t)

NextWrap ==
    \/ \E t \in Threads, q \in ConcRequests : CallAlloc(t, q)
    \/ \E t \in Threads, release \in BOOLEAN : CallReset(t, release)
    \/ \E t \in Threads : WStep(t)

SpecWrapFair ==
    /\ InitWrap
    /\ [][NextWrap]_vars
    /\ \A t \in Threads : WF_vars(WStep(t))

\* goroutines calling Alloc on one monotonic arena of one buffer, with no wrapper
InitRace == ConstructShared("monotonic", BufSize, 1)

\* the next step of goroutine t inside monotonicArena.Alloc
MStep(t) == MProbe(t) \/ MCheck(t) \/ MPtr(t) \/ MBump(t) \/ MClear(t) \/ Return(t)

NextRace ==
    \/ \E t \in Threads, q \in ConcRequests : CallAlloc(t, q)
    \/ \E t \in Threads : MStep(t)

SpecRace == InitRace /\ [][NextRace]_vars

---------------------------------------------------------------------------
(* Goroutines calling Alloc and Reset on one slab arena.  slabArena.Reset    *)
(* walks the slabs in order; slab.reset locks the slab's mutex, runs its     *)
(* body and unlocks on return, as slab.alloc does.                           *)

\* capacity in bytes of every slab of the arena the goroutines share
SlabSize == 1

\* the size the goroutines ask for: a whole slab, so that the third request
\* of a generation is refused by both slabs
SlabConcSizes == {SlabSize}

\* faulty variant: Unlock leaves the mutex locked
mutexUnlockNone(m, i) == m

\* sync.Mutex.Unlock on mutex i
mutexUnlock(m, i) == [m EXCEPT ![i] = 0]

\* goroutine t calls a.Reset(release) on the slab arena
SlabCallReset(t, release) ==
    /\ kind = "slab"
    /\ thr[t].pc = "idle"
    /\ pos < MaxCalls
    /\ pos' = pos + 1
    /\ calls' = calls \cup {"Reset"}
    /\ thr' = [thr EXCEPT ![t] = [@ EXCEPT !.pc = "rlock", !.op = "Reset", !.i = 1,
                                            !.release = release]]
    /\ UNCHANGED <<kind, buffers, slabs, mem, ret, owned, served, mtx>>

\* slab.reset: s.mtx.Lock()
SRLock(t) ==
    /\ thr[t].pc = "rlock"
    /\ mutexFree(mtx[thr[t].i])
    /\ mtx' = [mtx EXCEPT ![thr[t].i] = t]
    /\ thr' = [thr EXCEPT ![t].pc = "rbody"]
    /\ UNCHANGED <<kind, buffers, slabs, mem, ret, owned, served, calls, pos>>

\* slab.reset: the body, executed with s.mtx held
SRBody(t) ==
    /\ thr[t].pc = "rbody"
    /\ \E i \in {thr[t].i} :
       \E r \in {slabReset(slabs[i], mem[i], thr[t].release)} :
       \E gone \in {owned \cap Block(slabs[i].ptr, slabs[i].size)} :
          /\ slabs' = [slabs EXCEPT ![i] = r.s]
          /\ mem' = [mem EXCEPT ![i] = r.m]
          /\ owned' = owned \ gone
          /\ served' = served - Cardinality(gone)
    /\ thr' = [thr EXCEPT ![t].pc = "runlock"]
    /\ UNCHANGED <<kind, buffers, ret, calls, pos, mtx>>

\* slab.reset: the deferred s.mtx.Unlock(), then slabArena.Reset's loop
SRUnlock(t) ==
    /\ thr[t].pc = "runlock"
    /\ mtx' = mutexUnlock(mtx, thr[t].i)
    /\ thr' = [thr EXCEPT ![t] =
                  IF thr[t].i = Len(slabs)
                  THEN [@ EXCEPT !.pc = "return"]
                  ELSE [@ EXCEPT !.pc = "rlock", !.i = @ + 1]]
    /\ UNCHANGED <<kind, buffers, slabs, mem, ret, owned, served, calls, pos>>

InitSlabs == ConstructShared("slab", SlabSize, 2)

\* the next step of goroutine t inside a call on the slab arena
SStep(t) ==
    SLock(t) \/ SBody(t) \/ SUnlock(t) \/ SRLock(t) \/ SRBody(t) \/ SRUnlock(t) \/ Return(t)

NextSlabs ==
    \/ \E t \in Threads, size \in SlabConcSizes : CallAlloc(t, [size |-> size, alignment |-> 1])
    \/ \E t \in Threads, release \in BOOLEAN : SlabCallReset(t, release)
    \/ \E t \in Threads : SStep(t)

\* under a fair scheduler: a goroutine that can run, or that waits at a mutex
\* that stays unlocked, does take its next step
SpecSlabsFair ==
    /\ InitSlabs
    /\ [][NextSlabs]_vars
    /\ \A t \in Threads : WF_vars(SStep(t))

---------------------------------------------------------------------------
(* Wrapper-and-twin scenario: one goroutine calls a concurrentArena around a *)
(* monotonic arena, and makes the same calls on a second monotonic arena     *)
(* that has no wrapper.  buffers and mem are the wrapped arena, calls holds  *)
(* the buffers and the content of the twin, mtx[0] is the wrapper's mutex.   *)
(* A panic of the wrapped call is recovered by the caller.  When the mutex   *)
(* is locked at a call, the goroutine waits in a.mtx.Lock() for ever:        *)
(* thr[1].pc stays "lock" and the call is not forwarded.                     *)

\* what the caller records of a call on the wrapper and on the twin
WrapRet(op, q, release, forwarded, r, tw) ==
    [op |-> op, size |-> q.size, alignment |-> q.alignment, release |-> release,
     forwarded |-> forwarded, ptr |-> r.ptr, panic |-> r.panic,
     twinptr |-> tw.ptr, twinpanic |-> tw.panic]

\* concurrentArena.Alloc: ptr := a.a.Alloc(size, alignment); ...; return ptr
wrapperResult(r) == r

\* a.Alloc(q.size, q.alignment) on the wrapper, and the same call on the twin
WrapAlloc(q) ==
    /\ kind = "wrapped"
    /\ thr[1].pc = "idle"
    /\ IF mutexFree(mtx[0])
       THEN \E f \in Layouts(buffers) :
            \E r \in {monotonicArenaAlloc(buffers, mem, f, q.size, q.alignment)} :
            \E tw \in {monotonicArenaAlloc(calls.bufs, calls.mem, f, q.size, q.alignment)} :
               /\ buffers' = r.bufs
               /\ mem' = r.mem
               /\ calls' = [bufs |-> tw.bufs, mem |-> tw.mem]
               \* a panic leaves the call before a.mtx.Unlock()
               /\ mtx' = IF r.panic THEN [mtx EXCEPT ![0] = 1] ELSE mtx
               /\ ret' = WrapRet("Alloc", q, FALSE, 1, wrapperResult(r), tw)
               /\ UNCHANGED thr
       ELSE \E f \in Layouts(calls.bufs) :
            \E tw \in {monotonicArenaAlloc(calls.bufs, calls.mem, f, q.size, q.alignment)} :
               /\ calls' = [bufs |-> tw.bufs, mem |-> tw.mem]
               /\ thr' = [thr EXCEPT ![1] = [@ EXCEPT !.pc = "lock", !.op = "Alloc"]]
               /\ ret' = WrapRet("Alloc", q, FALSE, 0, [ptr |-> Nil, panic |-> FALSE], tw)
               /\ UNCHANGED <<buffers, mem, mtx>>
    /\ UNCHANGED <<kind, slabs, owned, served, pos>>

\* a.Reset(release) on the wrapper, and the same call on the twin
WrapReset(release) ==
    /\ kind = "wrapped"
    /\ thr[1].pc = "idle"
    /\ \E tw \in {monotonicArenaReset(calls.bufs, calls.mem, release)} :
       \E none \in {[ptr |-> Nil, panic |-> FALSE]} :
       \E q \in {[size |-> 0, alignment |-> 1]} :
          /\ calls' = [bufs |-> tw.bufs, mem |-> tw.mem]
          /\ IF mutexFree(mtx[0])
             THEN \E r \in {monotonicArenaReset(buffers, mem, release)} :
                     /\ buffers' = r.bufs
                     /\ mem' = r.mem
                     /\ ret' = WrapRet("Reset", q, release, 1, none, none)
                     /\ UNCHANGED thr
             ELSE /\ thr' = [thr EXCEPT ![1] = [@ EXCEPT !.pc = "lock", !.op = "Reset"]]
                  /\ ret' = WrapRet("Reset", q, release, 0, none, none)
                  /\ UNCHANGED <<buffers, mem>>
    /\ UNCHANGED <<kind, slabs, owned, served, pos, mtx>>

\* NewConcurrentArena(NewMonotonicArena(BufSize, n)) and its twin
InitWrapOne ==
    /\ kind = "wrapped"
    /\ \E n \in BufferCounts :
          /\ buffers = NewMonotonicArena(BufSize, n)
          /\ mem = [i \in 1..n |-> <<>>]
          /\ calls = [bufs |-> NewMonotonicArena(BufSize, n), mem |-> [i \in 1..n |-> <<>>]]
          /\ mtx = [i \in 0..n |-> 0]
    /\ slabs = <<>>
    /\ ret = WrapRet("none", [size |-> 0, alignment |-> 1], FALSE, 1,
                     [ptr |-> Nil, panic |-> FALSE], [ptr |-> Nil, panic |-> FALSE])
    /\ owned = {}
    /\ served = 0
    /\ pos = 0
    /\ thr = [t \in Threads |-> Idle]

NextWrapOne ==
    \/ \E q \in ConcRequests : WrapAlloc(q)
    \/ \E release \in BOOLEAN : WrapReset(release)

SpecWrapOne == InitWrapOne /\ [][NextWrapOne]_vars

---------------------------------------------------------------------------
(* The membership test of the repository's tests *)

\* isMonotonicArenaPtr: the buffers are examined in order up to the first one
\* without a block; beginPtr <= ptr < endPtr, endPtr a uintptr sum
isMonotonicArenaPtr(bufs, ptr) ==
    \E i \in 1..Len(bufs) :
        /\ \A j \in 1..i : bufs[j].ptr # Nil
        /\ ptr >= bufs[i].ptr
        /\ ptr < (bufs[i].ptr + bufs[i].size) % UintMod

---------------------------------------------------------------------------
(* Life-cycle scenario: one caller, either arena, a short list of requests   *)
(* that reaches every path of alloc and reset                                *)

\* a zero-size request, requests with and without padding for every
\* alignment, one that fills a buffer, one that no buffer can hold, and the
\* largest uintptr
LifeRequests ==
    { [size |-> 0, alignment |-> 1], [size |-> 1, alignment |-> 1],
      [size |-> 2, alignment |-> 2], [size |-> 1, alignment |-> 4],
      [size |-> 1, alignment |-> 8], [size |-> 1, alignment |-> 16],
      [size |-> BufSize, alignment |-> 1], [size |-> BufSize + 1, alignment |-> 1],
      [size |-> UintMod - 1, alignment |-> 4] }

NextLife ==
    \/ \E q \in LifeRequests : MonotonicAlloc(q.size, q.alignment)
    \/ \E size \in SlabSizes : SlabAlloc(size)
    \/ \E release \in BOOLEAN : Reset(release)

SpecLife == Init /\ [][NextLife]_vars

---------------------------------------------------------------------------
(* Padding scenario: the alignment loop of monotonicBuffer.alloc applied to  *)
(* a base, an offset and an alignment                                        *)

\* the bases make may return: every residue modulo the largest alignment, and
\* the last addresses of the address space
PadBases == HeapLo..(HeapLo + 15) \cup {UintMod - BufSize - 1, UintMod - BufSize}

\* lines 28-31 of monotonicBuffer.alloc for a buffer at base with this offset
ComputePad(base, offset, alignment) ==
    /\ ret' = [op |-> "pad", base |-> base, offset |-> offset, alignment |-> alignment,
               pad |-> alignLoop((base + offset) % UintMod, alignment, 0)]
    /\ UNCHANGED <<kind, buffers, slabs, mem, owned, served, calls, pos, mtx, thr>>

InitPad ==
    /\ Construct("nil", 0, 0)
    /\ calls = <<>>
    /\ pos = 0

NextPad == \E base \in PadBases, offset \in 0..BufSize, alignment \in Aligns :
              ComputePad(base, offset, alignment)

SpecPad == InitPad /\ [][NextPad]_vars

---------------------------------------------------------------------------
(* One call of monotonicBuffer.alloc, for every size of type uintptr: ret    *)
(* holds the buffer s and its content m before the call, the arguments, and  *)
(* the result r once the call is done                                        *)

\* addresses of the block: one for each remainder modulo 4
BufBases == HeapLo..(HeapLo + 3)

\* the buffer before the call: without a block, or with the block at base and
\* offset bytes in use
BufEntry(base, made, offset, size, alignment) ==
    [op |-> "alloc", size |-> size, alignment |-> alignment, fresh |-> base,
     s |-> [size |-> BufSize, offset |-> offset, ptr |-> IF made THEN base ELSE Nil],
     m |-> IF made THEN Zeros(BufSize) ELSE <<>>,
     r |-> [s |-> [size |-> BufSize, offset |-> offset, ptr |-> Nil], m |-> <<>>,
            ptr |-> Nil, ok |-> FALSE, panic |-> FALSE],
     done |-> FALSE]

\* s.alloc(size, alignment)
BufferAlloc ==
    /\ ret.op = "alloc" /\ ~ret.done
    /\ ret' = [ret EXCEPT !.r = monotonicBufferAlloc(ret.s, ret.m, ret.fresh,
                                                     ret.size, ret.alignment),
                          !.done = TRUE]
    /\ UNCHANGED <<kind, buffers, slabs, mem, owned, served, calls, pos, mtx, thr>>

InitBuf ==
    /\ kind = "nil"
    /\ buffers = <<>> /\ slabs = <<>> /\ mem = <<>>
    /\ owned = {} /\ served = 0
    /\ mtx = [i \in 0..0 |-> 0]
    /\ thr = [t \in Threads |-> Idle]
    /\ calls = {}
    /\ pos = 0
    /\ \E base \in BufBases, made \in BOOLEAN, offset \in 0..BufSize :
       \E size \in 0..(UintMod - 1), alignment \in Aligns :
          /\ ~made => offset = 0
          /\ ret = BufEntry(base, made, offset, size, alignment)

NextBuf == BufferAlloc

SpecBuf == InitBuf /\ [][NextBuf]_vars

---------------------------------------------------------------------------
(* Context carrier (InjectContextArena, ExtractContextArena).  A             *)
(* context.Context is the chain of the values attached to it, oldest first;  *)
(* context.Background() is the empty chain.  An interface value is a record  *)
(* of its dynamic type and an identity; the nil interface has type "nil".    *)
(* In this scenario calls is the context the caller holds, and the arena in  *)
(* buffers is the one behind the handle of identity 1.                       *)

\* const arenaContextKey contextKey = 0
arenaContextKey == [type |-> "nuke.contextKey", value |-> 0]

\* keys of other packages: the same number under another type, and a string
OtherKeys == { [type |-> "int", value |-> 0], [type |-> "string", value |-> 1] }

\* the nil interface value
NilValue == [type |-> "nil", id |-> 0]

\* the Arena values the caller passes: two arenas and the nil Arena
ArenaValues == { [type |-> "Arena", id |-> 1], [type |-> "Arena", id |-> 2], NilValue }

\* a value attached by another package
OtherValue == [type |-> "string", id |-> 1]

\* context.WithValue(ctx, key, val)
WithValue(ctx, key, val) == Append(ctx, [key |-> key, val |-> val])

\* faulty variant: the oldest value attached under the key is returned
RECURSIVE ValueOldest(_, _)
ValueOldest(ctx, key) ==
    IF ctx = <<>> THEN NilValue
    ELSE IF Head(ctx).key = key THEN Head(ctx).val
    ELSE ValueOldest(Tail(ctx), key)

\* ctx.Value(key): the value attached last under key, nil when there is none
RECURSIVE Value(_, _)
Value(ctx, key) ==
    IF ctx = <<>> THEN NilValue
    ELSE IF ctx[Len(ctx)].key = key THEN ctx[Len(ctx)].val
    ELSE Value(SubSeq(ctx, 1, Len(ctx) - 1), key)

\* InjectContextArena
InjectContextArena(ctx, a) == WithValue(ctx, arenaContextKey, a)

\* ExtractContextArena: the type assertion .(Arena) fails on the nil interface
ExtractContextArena(ctx) ==
    LET a == Value(ctx, arenaContextKey)
    IN  IF a.type = "Arena" THEN a ELSE NilValue

\* what the caller records of a call on a context
CtxRet(op, parent, a, res) == [op |-> op, parent |-> parent, arena |-> a, res |-> res]

\* ctx = InjectContextArena(ctx, a)
Inject(a) ==
    /\ Len(calls) < MaxCalls
    /\ calls' = InjectContextArena(calls, a)
    /\ ret' = CtxRet("Inject", calls, a, NilValue)
    /\ UNCHANGED <<kind, buffers, slabs, mem, owned, served, pos, mtx, thr>>

\* ctx = context.WithValue(ctx, key, v) by another package
Attach(key) ==
    /\ Len(calls) < MaxCalls
    /\ calls' = WithValue(calls, key, OtherValue)
    /\ ret' = CtxRet("WithValue", calls, NilValue, NilValue)
    /\ UNCHANGED <<kind, buffers, slabs, mem, owned, served, pos, mtx, thr>>

\* a := ExtractContextArena(ctx)
Extract ==
    /\ ret' = CtxRet("Extract", calls, NilValue, ExtractContextArena(calls))
    /\ UNCHANGED <<kind, buffers, slabs, mem, owned, served, calls, pos, mtx, thr>>

\* the callee returns: the caller holds the parent context again
Leave ==
    /\ calls # <<>>
    /\ calls' = SubSeq(calls, 1, Len(calls) - 1)
    /\ ret' = CtxRet("Leave", calls, NilValue, NilValue)
    /\ UNCHANGED <<kind, buffers, slabs, mem, owned, served, pos, mtx, thr>>

\* an allocation from the arena of identity 1, made by its owner
CtxAlloc ==
    /\ \E r \in AllocOutcomes(1, 1) : Allocated(r, 1)
    /\ ret' = CtxRet("Alloc", calls, NilValue, NilValue)
    /\ UNCHANGED <<kind, calls, pos, mtx, thr>>

InitCtx ==
    /\ Construct("monotonic", BufSize, 1)
    /\ calls = <<>>
    /\ pos = 0

NextCtx ==
    \/ \E a \in ArenaValues : Inject(a)
    \/ \E key \in OtherKeys : Attach(key)
    \/ Extract
    \/ Leave
    \/ CtxAlloc

SpecCtx == InitCtx /\ [][NextCtx]_vars

---------------------------------------------------------------------------
(* Properties of the monotonic and slab arenas under a single caller *)

\* the smallest pad >= 0 with (addr + pad) mod alignment = 0
PadTo(addr, alignment) == (alignment - (addr % alignment)) % alignment

IsAlloc == kind = "monotonic" /\ ret.op = "Alloc"

\* C1: between two Resets the ranges [address, address+size) of the successful
\* allocations of a monotonic arena are pairwise disjoint, within a buffer and
\* across buffers: the bytes handed out are as many as the sizes add up to.
C1_NoOverlap == kind = "monotonic" => Cardinality(owned) = served

\* several allocations, with padding between them, spread over both buffers
C1_Witness ==
    /\ kind = "monotonic" /\ Len(buffers) = 2 /\ served >= 3
    /\ SumOffsets(buffers) > served
    /\ \A i \in 1..2 : buffers[i].ptr # Nil
                       /\ owned \cap Block(buffers[i].ptr, buffers[i].size) # {}

\* C2: every address a successful monotonic Alloc(s, a) returns is a multiple
\* of a, for a in {1,2,4,8,16}, whatever the base and the offset.
C2_Aligned == (IsAlloc /\ ret.ptr # Nil) => ret.ptr % ret.alignment = 0

\* an 8-aligned value placed after an earlier allocation of a buffer whose
\* base is not 8-aligned, with padding in front of it
C2_Witness ==
    /\ IsAlloc /\ ret.ptr # Nil /\ ret.alignment = 8 /\ ret.size >= 1
    /\ buffers[ret.buf].ptr % 8 # 0
    /\ (ret.ptr - 1) \notin owned
    /\ \E x \in owned : buffers[ret.buf].ptr <= x /\ x < ret.ptr

\* C3: a successful monotonic Alloc of size >= 1 advances the offset of exactly
\* one buffer, and the returned range lies inside that buffer's block.
C3_InsideOneBuffer ==
    [][(kind = "monotonic" /\ ret'.op = "Alloc" /\ ret'.ptr # Nil /\ ret'.size >= 1)
       => \E i \in 1..Len(buffers) :
             /\ \A j \in 1..Len(buffers) :
                   (buffers'[j].offset # buffers[j].offset) <=> (j = i)
             /\ buffers'[i].ptr <= ret'.ptr
             /\ ret'.ptr + ret'.size <= buffers'[i].ptr + buffers'[i].size]_vars

\* a request served whole by the second buffer although the first has bytes left
C3_Witness ==
    /\ IsAlloc /\ ret.ptr # Nil /\ ret.buf = 2 /\ ret.size >= 2
    /\ buffers[1].offset > 0 /\ buffers[1].offset < buffers[1].size

\* C4: a monotonic Alloc returns nil exactly when in every buffer size plus the
\* padding exceeds the remaining capacity; it does not panic, and the number
\* and the capacities of the buffers stay as constructed.
C4_NilIffNoRoom ==
    [][(kind = "monotonic" /\ ret'.op = "Alloc")
       => /\ Len(buffers') = Len(buffers)
          /\ \A i \in 1..Len(buffers) : buffers'[i].size = buffers[i].size
          /\ ~ret'.panic
          /\ (ret'.ptr = Nil) <=>
                \A i \in 1..Len(buffers) :
                    /\ buffers'[i].ptr # Nil
                    /\ ret'.size + PadTo(buffers'[i].ptr + buffers[i].offset, ret'.alignment)
                          > buffers[i].size - buffers[i].offset]_vars

C6_Original ==
    (IsAlloc /\ ret.alignment = 1 /\ served = SumOffsets(buffers) /\ ret.ptr = Nil)
        => served + ret.size > SumSizes(buffers)

\* C6 amended: with alignment 1 and no padding consumed, a request is refused
\* only when no single buffer has size bytes left; with one buffer that is
\* exactly when the cumulative bytes would exceed S.
C6_Amended ==
    (IsAlloc /\ ret.alignment = 1 /\ served = SumOffsets(buffers) /\ ret.ptr = Nil)
        => /\ \A i \in 1..Len(buffers) : buffers[i].size - buffers[i].offset < ret.size
           /\ Len(buffers) = 1 => served + ret.size > SumSizes(buffers)

\* a single buffer filled to its last byte by more than one request
C6_Witness ==
    /\ IsAlloc /\ ret.alignment = 1 /\ Len(buffers) = 1 /\ ret.ptr # Nil
    /\ served = SumSizes(buffers) /\ served = SumOffsets(buffers)
    /\ ret.size >= 1 /\ ret.size < served

\* C9: when Reset(release) returns, every buffer's offset is 0, for both values
\* of release and both arenas.
C9_ResetZero == ret.op = "Reset" => \A i \in 1..Len(Bufs) : Bufs[i].offset = 0

\* a Reset over one used buffer and one that was already empty
C9_Witness ==
    /\ ret.op = "Reset" /\ ~ret.release /\ Len(Bufs) = 2 /\ ret.used = 1
    /\ \A i \in 1..2 : Bufs[i].ptr # Nil

\* C12: when Reset(true) returns on a monotonic arena, no buffer holds a block
\* any more (every ptr is nil), whatever calls came before, so that the next
\* Alloc makes a fresh block.
C12_ReleaseAll ==
    (kind = "monotonic" /\ ret.op = "Reset" /\ ret.release)
        => \A i \in 1..Len(buffers) : buffers[i].ptr = Nil

\* C18: in every state reachable by Alloc(size, alignment) and Reset(release)
\* calls, for every uintptr size and every power-of-two alignment, every
\* buffer of a monotonic arena has 0 <= offset <= size.
C18_OffsetInBounds ==
    kind = "monotonic" =>
        \A i \in 1..Len(buffers) : 0 <= buffers[i].offset /\ buffers[i].offset <= buffers[i].size

\* a buffer filled to its capacity, part of it by padding, when the request
\* of the largest size comes in
C18_Witness ==
    /\ IsAlloc /\ ret.size = UintMod - 1
    /\ \E i \in 1..Len(buffers) : buffers[i].offset = buffers[i].size
    /\ SumOffsets(buffers) > served /\ served >= 1

---------------------------------------------------------------------------
(* Properties of the dirty-memory scenario *)

\* C11: when a successful Alloc returns, every byte of the returned range is
\* zero, also when the caller had overwritten those bytes before a
\* Reset(false); for the monotonic arena and for the slab arena.
C11_ZeroAtReturn ==
    (ret.op = "Alloc" /\ ret.ptr # Nil)
        => \A a \in Block(ret.ptr, ret.size) : ByteAt(Bufs, mem, a) = 0

\* a monotonic Alloc that returns bytes the caller had overwritten before the
\* last Reset, next to a byte of that generation that is still non-zero
C11_Witness ==
    /\ IsAlloc /\ ret.ptr # Nil /\ ret.size >= 1
    /\ Block(ret.ptr, ret.size) \subseteq calls
    /\ \E a \in calls \ owned : ByteAt(buffers, mem, a) # 0

---------------------------------------------------------------------------
(* Properties of the side-by-side scenario *)

\* C17: given the same single-threaded sequence of Alloc(size, alignment) and
\* Reset(release) calls, a slab arena and a monotonic arena of equal buffer
\* count, size and bases answer alike: success or nil at the same calls, from
\* the same buffer, at the same offsets, the address a multiple of alignment.
C17_SameContract ==
    kind = "pair" =>
        /\ (calls.m.ptr = Nil) <=> (calls.s.ptr = Nil)
        /\ calls.m.buf = calls.s.buf
        /\ \A i \in 1..Len(buffers) : buffers[i].offset = slabs[i].offset
        /\ (ret.op = "Alloc" /\ calls.s.ptr # Nil) => calls.s.ptr % ret.alignment = 0

---------------------------------------------------------------------------
(* Properties of the concurrent scenarios *)

\* the goroutines that are executing inside the wrapped arena
Inside == {t \in Threads : thr[t].pc \in {"probe", "check", "ptr", "bump", "clear", "reset"}}

\* C13: with any number of goroutines calling Alloc and Reset on one
\* concurrentArena, at most one of them is inside the wrapped arena at any
\* time, and it is the one that holds the wrapper's mutex.
C13_Serialized ==
    kind = "concurrent" =>
        /\ Cardinality(Inside) <= 1
        /\ \A t \in Inside : mtx[0] = t

\* one goroutine is in the middle of the wrapped Reset while the other waits
\* at the mutex with an Alloc
C13_Witness ==
    /\ kind = "concurrent" /\ Len(buffers) = 2
    /\ \E t, u \in Threads :
          /\ thr[t].pc = "reset" /\ thr[t].i = 2
          /\ thr[u].pc = "lock" /\ thr[u].op = "Alloc"

RECURSIVE SumConsumed(_)
SumConsumed(T) ==
    IF T = {} THEN 0
    ELSE LET t == CHOOSE u \in T : TRUE IN thr[t].consumed + SumConsumed(T \ {t})

\* C14: with goroutines calling only Alloc on a slab arena or on a
\* concurrentArena around a monotonic arena, the ranges returned are pairwise
\* disjoint, and when all calls have returned the offsets of the buffers add up
\* to the bytes the successful calls consumed.
C14_NoLostUpdate ==
    "Reset" \notin calls =>
        /\ Cardinality(owned) = served
        /\ (\A t \in Threads : thr[t].pc = "idle") => SumOffsets(Bufs) = SumConsumed(Threads)

\* all calls made and returned, both goroutines served, with padding in a
\* buffer and both buffers used
C14_Witness ==
    /\ kind = "concurrent" /\ "Reset" \notin calls /\ pos = MaxCalls
    /\ \A t \in Threads : thr[t].pc = "idle" /\ thr[t].consumed > 0
    /\ Len(buffers) = 2 /\ \A i \in 1..2 : buffers[i].offset > 0
    /\ SumOffsets(buffers) > served

\* C15: a monotonic arena called by two goroutines without a wrapper has no
\* synchronisation: no mutex is ever held and a goroutine inside Alloc can
\* always take its next step, wherever the other goroutine is; so both can be
\* between the read and the write of one buffer's offset, and the state with
\* overlapping ranges and a lost offset update (the witness) is reachable.
C15_Unsynchronized ==
    kind = "monotonic" =>
        /\ \A i \in DOMAIN mtx : mtx[i] = 0
        /\ \A t \in Threads : thr[t].pc # "idle" => ENABLED MStep(t)

\* both calls have returned the same address, and the offset shows the bytes
\* of one of them only
C15_Witness ==
    /\ kind = "monotonic" /\ \A t \in Threads : thr[t].pc = "idle"
    /\ pos = 2 /\ served = 2 /\ Cardinality(owned) = 1
    /\ SumConsumed(Threads) = 2 /\ SumOffsets(buffers) = 1

\* C16: a call on a concurrentArena unlocks a.mtx before it returns, so the
\* mutex is unlocked whenever no goroutine is between Lock and Unlock, in
\* particular when no call is in flight; and under fair scheduling every call
\* that was started acquires the mutex and returns.
C16_LockReleased ==
    /\ [](\A t \in Threads : thr[t].pc \in {"idle", "lock", "return"} => mtx[0] # t)
    /\ []((\A t \in Threads : thr[t].pc = "idle") => mtx[0] = 0)
    /\ \A t \in Threads : (thr[t].pc # "idle") ~> (thr[t].pc = "idle")

\* a Reset waits at the mutex while the other goroutine's Alloc, which holds
\* it, is about to clear its range
C16_Witness ==
    /\ kind = "concurrent"
    /\ \E t, u \in Threads :
          /\ thr[t].pc = "clear" /\ mtx[0] = t
          /\ thr[u].pc = "lock" /\ thr[u].op = "Reset"

---------------------------------------------------------------------------
(* Properties of New[T] *)

\* C7: in an arena (monotonic or slab) with one buffer of capacity k*s whose
\* base is a-aligned, the first k calls New[T] with sizeof(T) = s, alignof(T) = a
\* are served by the arena and the next ones by the heap.
C7_SendToHeap ==
    \A T \in Types, k \in 1..MaxCalls :
        ( /\ kind # "nil" /\ Len(Bufs) = 1 /\ T.size >= 1
          /\ Bufs[1].size = k * T.size
          /\ calls # <<>>
          /\ \A i \in 1..Len(calls) : calls[i].type = T.name
          /\ Bufs[1].ptr % T.align = 0 )
        => \A i \in 1..Len(calls) : calls[i].heap <=> (i > k)

\* the tests' scenario: room for two values, the third goes to the heap
C7_Witness ==
    /\ kind = "monotonic" /\ Len(buffers) = 1 /\ buffers[1].size = 4
    /\ buffers[1].ptr % 2 = 0
    /\ Len(calls) = 3 /\ \A i \in 1..3 : calls[i].type = "int16"
    /\ ~calls[1].heap /\ ~calls[2].heap /\ calls[3].heap

\* C8: New[T](a) never returns nil and never panics; with a non-nil arena it
\* calls Alloc(sizeof(T), alignof(T)) once and returns its result when that is
\* not nil; with a nil arena or a nil result it returns a heap allocation.
C8_NewNeverNil ==
    ret.op = "New" =>
        /\ ret.ptr # Nil
        /\ ~ret.panic
        /\ \E T \in Types : T.name = ret.type /\ ret.size = T.size /\ ret.alignment = T.align
        /\ kind = "nil" => (ret.allocs = 0 /\ ret.heap)
        /\ kind # "nil" => /\ ret.allocs = 1
                           /\ ret.aptr # Nil => (ret.ptr = ret.aptr /\ ~ret.heap)
                           /\ ret.aptr = Nil => ret.heap
        /\ ret.heap => \A i \in 1..Len(Bufs) :
                          ret.ptr \notin Block(Bufs[i].ptr, Bufs[i].size)

\* an exhausted arena: an earlier value came from the arena, this one from the heap
C8_Witness ==
    /\ ret.op = "New" /\ kind = "monotonic" /\ ret.heap /\ ret.aptr = Nil
    /\ ret.allocs = 1 /\ Len(calls) >= 2 /\ ~calls[1].heap

---------------------------------------------------------------------------
(* Properties of MakeSlice and SliceAppend *)

\* C19: MakeSlice[T](a, len, cap) with 0 <= len <= cap returns a slice of
\* length len and capacity cap; with a non-nil arena it makes one Alloc call,
\* for sizeof(T)*cap bytes with alignof(T), and returns that memory when the
\* result is not nil; with a nil arena or a nil result it returns a heap slice.
C19_MakeSlice ==
    ret.op = "MakeSlice" =>
        /\ ret.res.len = ret.len /\ ret.res.cap = ret.cap
        /\ ~ret.panic
        /\ kind = "nil" => (ret.allocs = 0 /\ ret.res.heap)
        /\ kind # "nil" =>
              /\ ret.allocs = 1
              /\ ret.asize = TypeOf(ret.res.type).size * ret.cap
              /\ ret.aalign = TypeOf(ret.res.type).align
              /\ ret.aptr # Nil => (ret.res.ptr = ret.aptr /\ ~ret.res.heap)
              /\ ret.aptr = Nil => ret.res.heap
        /\ ret.res.heap => ret.res.ptr \notin Held(Bufs)

\* a slice of two int16 with len < cap that fills the arena's buffer
C19_Witness ==
    /\ ret.op = "MakeSlice" /\ kind = "monotonic" /\ ret.res.type = "int16"
    /\ ret.cap = 2 /\ ret.len = 1
    /\ ~ret.res.heap /\ ret.res.ptr = ret.aptr /\ ret.res.ptr % 2 = 0
    /\ buffers[1].offset = 4

\* C20: SliceAppend(a, s, data...) returns a slice whose elements are those
\* of s followed by those of data, of length len(s)+len(data), for a nil
\* arena, an arena with room and an exhausted one, and for an empty, a
\* zero-capacity and a full s.
C20_SliceAppend ==
    ret.op = "SliceAppend" =>
        /\ Elements(ret.res) = Elements(ret.s) \o ret.data
        /\ ret.res.len = ret.s.len + Len(ret.data)
        /\ ret.res.cap >= ret.res.len

\* a full slice that lives in the arena grows into the heap because the
\* arena is exhausted
C20_Witness ==
    /\ ret.op = "SliceAppend" /\ kind = "monotonic"
    /\ ret.s.len = ret.s.cap /\ ret.s.len >= 1 /\ ~ret.s.heap
    /\ Len(ret.data) >= 1 /\ ret.allocs = 1 /\ ret.aptr = Nil /\ ret.res.heap
    /\ \E k \in 1..ret.s.len : ret.s.arr[k] # 0

---------------------------------------------------------------------------
(* Properties of the replay scenario *)

\* C10: Reset(false) leaves every buffer's base address unchanged, and the
\* calls of the generation before it, issued again in the same order, return
\* the same addresses without any new block being allocated.
C10_ReplaySameAddresses ==
    [][/\ (ret'.op = "Reset" /\ ~ret'.release)
            => \A i \in 1..Len(Bufs) : Bufs'[i].ptr = Bufs[i].ptr
       /\ (pos >= 1 /\ pos' = pos + 1)
            => (ret'.ptr = calls[pos].ptr /\ ret'.made = 0)]_vars

\* a whole generation replayed: three calls, the last one served by the second buffer
C10_Witness ==
    /\ kind = "monotonic" /\ Len(calls) >= 3 /\ pos = Len(calls) + 1
    /\ ret.op = "Alloc" /\ ret.buf = 2 /\ ret.ptr # Nil
    /\ SumOffsets(buffers) > served

---------------------------------------------------------------------------
(* Properties of the context carrier *)

\* C21: ExtractContextArena(InjectContextArena(ctx, a)) is a for every context
\* and every arena; of nested injections the last one is returned, the parent
\* context still yields what it yielded, a context with no injected arena
\* yields nil, and neither operation changes an arena (no Alloc, no Reset).
C21_InjectExtract ==
    [][/\ ret'.op = "Inject" =>
            /\ ExtractContextArena(calls') = ret'.arena
            /\ ExtractContextArena(ret'.parent) = ExtractContextArena(calls)
            /\ SubSeq(calls', 1, Len(calls)) = calls
            /\ <<buffers', mem', owned', served'>> = <<buffers, mem, owned, served>>
       /\ ret'.op = "Extract" =>
            /\ ret'.res = ExtractContextArena(calls)
            /\ (\A k \in 1..Len(calls) : calls[k].key # arenaContextKey) => ret'.res = NilValue
            /\ \A k \in 1..Len(calls) :
                  (/\ calls[k].key = arenaContextKey
                   /\ \A j \in (k + 1)..Len(calls) : calls[j].key # arenaContextKey)
                  => ret'.res = calls[k].val
            /\ <<buffers', mem', owned', served', calls'>> = <<buffers, mem, owned, served, calls>>]_vars

\* the second arena injected over the first, another package's value attached
\* on top, and the extraction yields the second arena while the first arena
\* has bytes allocated
C21_Witness ==
    /\ ret.op = "Extract" /\ Len(calls) = 3
    /\ calls[1] = [key |-> arenaContextKey, val |-> [type |-> "Arena", id |-> 1]]
    /\ calls[2] = [key |-> arenaContextKey, val |-> [type |-> "Arena", id |-> 2]]
    /\ calls[3].key = [type |-> "int", value |-> 0]
    /\ ret.res = [type |-> "Arena", id |-> 2]
    /\ buffers[1].offset > 0

---------------------------------------------------------------------------
(* Properties of the buffer life cycle *)

\* C22: the constructors materialise no block; a buffer gets its block only
\* in an Alloc call that probes it (every buffer up to the one that serves
\* the request, all of them when the call returns nil), and in every state a
\* buffer without a block has offset 0.
C22_LazyBlocks ==
    /\ \A i \in 1..Len(Bufs) : Bufs[i].ptr = Nil
    /\ [](\A i \in 1..Len(Bufs) : Bufs[i].ptr = Nil => Bufs[i].offset = 0)
    /\ [][\A i \in 1..Len(Bufs) :
            /\ (Bufs[i].ptr = Nil /\ Bufs'[i].ptr # Nil) =>
                  (ret'.op = "Alloc" /\ (ret'.buf = 0 \/ i <= ret'.buf))
            /\ (ret'.op = "Alloc" /\ i <= ret'.buf) => Bufs'[i].ptr # Nil
            /\ (ret'.op = "Alloc" /\ ret'.buf = 0 /\ ~ret'.panic) => Bufs'[i].ptr # Nil
            /\ (ret'.op = "Alloc" /\ 0 < ret'.buf /\ ret'.buf < i) => Bufs'[i].ptr = Bufs[i].ptr]_vars

\* the first buffer serves a request while the second one, never probed, has
\* no block
C22_Witness ==
    /\ ret.op = "Alloc" /\ ret.buf = 1 /\ ret.made = 1 /\ Len(Bufs) = 2
    /\ Bufs[1].ptr # Nil /\ Bufs[1].offset > 0
    /\ Bufs[2].ptr = Nil /\ Bufs[2].offset = 0

\* C23: the padding of a monotonic buffer is the smallest pad >= 0 with
\* (base + offset + pad) mod alignment = 0; it is below the alignment, and 0
\* when base + offset is aligned, for every base, offset and power-of-two
\* alignment.
C23_SmallestPad ==
    ret.op = "pad" =>
        /\ 0 <= ret.pad /\ ret.pad < ret.alignment
        /\ (ret.base + ret.offset + ret.pad) % ret.alignment = 0
        /\ \A p \in 0..(ret.pad - 1) : (ret.base + ret.offset + p) % ret.alignment # 0
        /\ (ret.base + ret.offset) % ret.alignment = 0 => ret.pad = 0
        /\ ret.pad = PadTo(ret.base + ret.offset, ret.alignment)

\* the largest padding: 15 bytes in front of a 16-aligned address, at an
\* offset above 0
C23_Witness ==
    /\ ret.op = "pad" /\ ret.alignment = 16 /\ ret.pad = 15 /\ ret.offset > 0

\* C24: a successful alloc of a monotonic buffer returns base + offset_before
\* + pad and advances the offset by exactly size + pad; no step other than a
\* Reset decreases an offset, and every range handed out since the last Reset
\* ends at or below base + offset, where the next allocation starts.
C24_BumpBySizePlusPad ==
    /\ [][(kind = "monotonic" /\ ret'.op = "Alloc" /\ ret'.ptr # Nil) =>
            \E i \in {ret'.buf} :
            \E pad \in {PadTo(buffers'[i].ptr + buffers[i].offset, ret'.alignment)} :
                /\ ret'.ptr = buffers'[i].ptr + buffers[i].offset + pad
                /\ buffers'[i].offset = buffers[i].offset + ret'.size + pad]_vars
    /\ [][(kind = "monotonic" /\ ret'.op # "Reset") =>
            \A i \in 1..Len(buffers) : buffers'[i].offset >= buffers[i].offset]_vars
    /\ [](kind = "monotonic" =>
            \A a \in owned : a < buffers[BufferOf(buffers, a)].ptr
                                   + buffers[BufferOf(buffers, a)].offset)

\* a 4-aligned byte placed two bytes into a buffer: one byte was handed out
\* before, one byte is padding
C24_Witness ==
    /\ IsAlloc /\ ret.ptr # Nil /\ ret.size = 1 /\ ret.alignment = 4
    /\ ret.ptr = buffers[ret.buf].ptr + 2 /\ buffers[ret.buf].offset = 3
    /\ buffers[ret.buf].ptr \in owned /\ (buffers[ret.buf].ptr + 1) \notin owned

\* C25: when size + pad exceeds the remaining capacity of a monotonic buffer,
\* alloc leaves the buffer untouched: offset, block and content are as before
\* the call, also on a buffer never used before; an Alloc that returns nil
\* leaves the whole arena unchanged.
C25_FailedAllocUntouched ==
    [][(kind = "monotonic" /\ ret'.op = "Alloc") =>
          /\ \A i \in 1..Len(buffers) :
                (ret'.size + PadTo(buffers'[i].ptr + buffers[i].offset, ret'.alignment)
                    > buffers[i].size - buffers[i].offset)
                => (buffers'[i] = buffers[i] /\ mem'[i] = mem[i])
          /\ ret'.ptr = Nil => (buffers' = buffers /\ mem' = mem)]_vars

\* whether buffer j, in the state after the call, had room for the request
\* before it: size plus the padding at most the remaining capacity
HadRoom(j) ==
    /\ buffers'[j].ptr # Nil
    /\ ret'.size + PadTo(buffers'[j].ptr + buffers[j].offset, ret'.alignment)
          <= buffers[j].size - buffers[j].offset

\* C26: a monotonic Alloc probes the buffers in the order 0..N-1 and serves
\* the request from the lowest-index buffer whose remaining capacity is at
\* least size + pad; the offset of no other buffer changes, a later buffer is
\* used only when every earlier one lacks room, and nil is returned only when
\* every buffer lacks room.
C26_FirstFit ==
    [][(kind = "monotonic" /\ ret'.op = "Alloc") =>
          /\ \A i \in 1..Len(buffers) :
                buffers'[i].offset # buffers[i].offset => (i = ret'.buf /\ HadRoom(i))
          /\ ret'.ptr # Nil =>
                (HadRoom(ret'.buf) /\ \A j \in 1..(ret'.buf - 1) : ~HadRoom(j))
          /\ ret'.ptr = Nil => \A j \in 1..Len(buffers) : ~HadRoom(j)]_vars

\* C27: reset(release) on a buffer whose offset is 0 changes nothing, for
\* both values of release and both arenas: offset, block and content stay,
\* also when the buffer holds a block and release is true.
C27_ResetUnusedNoOp ==
    [][ret'.op = "Reset" =>
          \A i \in 1..Len(Bufs) :
              Bufs[i].offset = 0 => (Bufs'[i] = Bufs[i] /\ mem'[i] = mem[i])]_vars

\* Reset(true) on a monotonic arena none of whose buffers is in use: a buffer
\* still holds its block, with the non-zero bytes an earlier generation
\* stored in it
C27_Witness ==
    /\ kind = "monotonic" /\ ret.op = "Reset" /\ ret.release /\ ret.used = 0
    /\ \E i \in 1..Len(buffers) :
          /\ buffers[i].ptr # Nil /\ buffers[i].offset = 0
          /\ \E k \in 1..Len(mem[i]) : mem[i][k] # 0

\* C28: Reset(true) drops the block of every buffer whose offset is above 0
\* when it is called, in both arenas, and rewinds its offset; the Alloc that
\* next reaches such a buffer gives it a fresh block that overlaps no block
\* still held and is zero-filled.
C28_ReleaseDropsUsed ==
    /\ [][(ret'.op = "Reset" /\ ret'.release) =>
            \A i \in 1..Len(Bufs) :
                Bufs[i].offset > 0 =>
                    (Bufs'[i].ptr = Nil /\ Bufs'[i].offset = 0 /\ mem'[i] = <<>>)]_vars
    /\ [][ret'.op = "Alloc" =>
            \A i \in 1..Len(Bufs) :
                (Bufs[i].ptr = Nil /\ Bufs'[i].ptr # Nil) =>
                    /\ mem'[i] = Zeros(Bufs[i].size)
                    /\ \A j \in 1..Len(Bufs) :
                          (j # i /\ Bufs'[j].ptr # Nil) =>
                              Block(Bufs'[i].ptr, Bufs[i].size)
                                  \cap Block(Bufs'[j].ptr, Bufs[j].size) = {}]_vars

\* Reset(true) on a slab arena of two slabs that both hold a block: the slab
\* in use has lost its block, the unused one has kept it
C28_Witness ==
    /\ kind = "slab" /\ ret.op = "Reset" /\ ret.release /\ ret.used = 1
    /\ Len(slabs) = 2 /\ slabs[1].ptr = Nil /\ slabs[1].offset = 0 /\ slabs[2].ptr # Nil

\* C29: in a monotonic arena a successful Alloc changes, in the blocks held
\* before the call, only the size bytes of the range it returns, which it
\* sets to zero: the padding and the bytes of earlier allocations stay; a
\* refused Alloc changes no byte, and Reset(false) changes no byte.
C29_WritesOnlyRange ==
    /\ [][(kind = "monotonic" /\ ret'.op = "Alloc") =>
            \A i \in 1..Len(buffers) :
                buffers[i].ptr # Nil =>
                    \A k \in 1..Len(mem[i]) :
                        mem'[i][k] =
                            IF /\ ret'.ptr # Nil /\ ret'.buf = i
                               /\ ret'.ptr <= buffers[i].ptr + k - 1
                               /\ buffers[i].ptr + k - 1 < ret'.ptr + ret'.size
                            THEN 0 ELSE mem[i][k]]_vars
    /\ [][(kind = "monotonic" /\ ret'.op = "Reset" /\ ~ret'.release) => mem' = mem]_vars

\* a 2-aligned pair placed one byte into a block: the padding byte in front
\* of it still holds what the previous generation stored there
C29_Witness ==
    /\ IsAlloc /\ ret.ptr # Nil /\ ret.size = 2 /\ ret.alignment = 2
    /\ ret.ptr = buffers[ret.buf].ptr + 1 /\ ret.made = 0
    /\ mem[ret.buf] = <<1, 0, 0>>

---------------------------------------------------------------------------
(* Properties of the slab arena under concurrent callers *)

\* the goroutines inside the critical section of slab i
InSlab(i) ==
    {t \in Threads : thr[t].i = i /\ thr[t].pc \in {"sbody", "sunlock", "rbody", "runlock"}}

\* C30: in a slab arena the mutex of a slab is held exactly by the goroutine
\* that is inside that slab's alloc or reset: at most one goroutine is inside
\* a given slab at a time, no goroutine holds two slab mutexes, a goroutine
\* waiting for a slab whose mutex is free is not held up by the mutex of
\* another slab, and every call returns, with no mutex held.
C30_SlabLocks ==
    /\ [](\A i \in 1..Len(slabs) :
            /\ Cardinality(InSlab(i)) <= 1
            /\ \A t \in Threads : (mtx[i] = t) <=> (t \in InSlab(i)))
    /\ [](\A t \in Threads : Cardinality({i \in 1..Len(slabs) : mtx[i] = t}) <= 1)
    /\ [](\A t \in Threads :
            (thr[t].pc \in {"slock", "rlock"} /\ mtx[thr[t].i] = 0)
                => ENABLED (SLock(t) \/ SRLock(t)))
    /\ \A t \in Threads : (thr[t].pc # "idle") ~> (thr[t].pc = "idle")

\* two goroutines inside the critical sections of the two slabs at the same
\* time: one in the alloc of the second slab, the other in the reset of the
\* first
C30_Witness ==
    /\ kind = "slab" /\ mtx[1] # 0 /\ mtx[2] # 0 /\ mtx[1] # mtx[2]
    /\ thr[mtx[2]].pc = "sbody" /\ thr[mtx[1]].pc = "rbody"

\* the step in which goroutine t runs the body of slab.alloc
Probes(t) == thr[t].pc = "sbody" /\ thr'[t].pc = "sunlock"

\* C31 as stated: with Alloc and Reset running concurrently on a slab arena,
\* an allocation is placed in slab i only if every slab j < i lacks room for
\* the request at the moment the allocation is placed.
C31_Original ==
    [][\A t \in Threads :
          (Probes(t) /\ thr'[t].buf # 0) =>
              \A j \in 1..(thr'[t].buf - 1) :
                  slabs[j].size - slabs[j].offset < thr[t].size]_vars

\* C31 amended: an allocation is placed in slab i only if every slab j < i
\* lacked room for the request when this call probed it: a call starts at the
\* first slab, a probe refuses the request exactly when the slab lacks room
\* at that moment, and the call moves on by one slab only after a refusal.
C31_Amended ==
    /\ [][\A t \in Threads :
            (thr[t].pc = "idle" /\ thr'[t].pc = "slock") => thr'[t].i = 1]_vars
    /\ [][\A t \in Threads :
            Probes(t) =>
                /\ thr'[t].i = thr[t].i
                /\ (thr'[t].ptr = Nil) <=>
                      (slabs[thr[t].i].size - slabs[thr[t].i].offset < thr[t].size)
                /\ thr'[t].ptr # Nil => thr'[t].buf = thr[t].i]_vars
    /\ [][\A t \in Threads :
            (thr[t].op = "Alloc" /\ thr'[t].op = "Alloc" /\ thr'[t].i # thr[t].i) =>
                /\ thr[t].pc = "sunlock" /\ thr[t].ptr = Nil
                /\ thr'[t].i = thr[t].i + 1]_vars

\* an allocation placed in the second slab while the first, emptied by a
\* Reset after this call had probed it, has room again
C31_Witness ==
    /\ kind = "slab" /\ "Reset" \in calls
    /\ \E t \in Threads :
          /\ thr[t].pc = "sunlock" /\ thr[t].buf = 2 /\ thr[t].ptr # Nil
          /\ slabs[1].size - slabs[1].offset >= thr[t].size

---------------------------------------------------------------------------
(* Properties of the wrapper under a single caller *)

\* C32: called from one goroutine, a concurrentArena behaves as the arena it
\* wraps: every call is forwarded exactly once, Alloc returns what the wrapped
\* arena returns (nil included), and after every sequence of calls the wrapped
\* arena is in the state of an unwrapped arena given the same calls.
C32_WrapperEqualsInner ==
    kind = "wrapped" =>
        /\ ret.forwarded = 1
        /\ ret.ptr = ret.twinptr /\ ret.panic = ret.twinpanic
        /\ buffers = calls.bufs /\ mem = calls.mem

---------------------------------------------------------------------------
(* Properties of growSlice *)

\* the first value >= n of the sequence that starts at c >= 1, doubles a
\* value below 256 and otherwise adds a quarter of it
RECURSIVE FirstInSequence(_, _)
FirstInSequence(c, n) ==
    IF c >= n THEN c
    ELSE FirstInSequence(IF c < 256 THEN c * 2 ELSE c + (c \div 4), n)

\* C33: when len(s) + len(data) > cap(s) and cap(s) >= 1, growSlice's new
\* capacity is the first value >= len(s) + len(data) of the doubling and
\* quarter sequence from cap(s); when cap(s) = 0 it is len(data); in every
\* case it is at least len(s) + len(data).
C33_CapacityPolicy ==
    (ret.op = "growSlice" /\ ret.done) =>
        /\ (ret.cap >= 1 /\ ret.len + ret.dataLen > ret.cap) =>
              ret.newCap = FirstInSequence(ret.cap, ret.len + ret.dataLen)
        /\ ret.cap = 0 => ret.newCap = ret.dataLen
        /\ ret.newCap >= ret.len + ret.dataLen

\* C34: for every slice with cap(s) >= 1 and every data length of type int
\* the loop of growSlice ends, and each iteration strictly increases the
\* candidate capacity: it doubles below 256 and adds at least 64 from 256 on.
C34_LoopTerminates ==
    /\ <>(ret.op = "growSlice" /\ ret.done)
    /\ [][(ret.op = "growSlice" /\ ~ret.done /\ ~ret'.done) =>
             /\ ret'.newCap > ret.newCap
             /\ ret.newCap < 256 => ret'.newCap = 2 * ret.newCap
             /\ ret.newCap >= 256 => ret'.newCap >= ret.newCap + 64]_vars

\* C35: SliceAppend with a non-nil arena, when len(s) + len(data) <= cap(s),
\* makes no Alloc call, leaves the arena as it is and returns a slice on the
\* array of s; when it grows it makes exactly one Alloc call, for the new
\* capacity, the new array is apart from that of s and starts with the first
\* len(s) elements of s; the elements of s are as before in both cases.
C35_AppendFrame ==
    /\ [][(kind # "nil" /\ ret'.op = "SliceAppend"
           /\ ret'.s.len + Len(ret'.data) <= ret'.s.cap) =>
             /\ ret'.s = calls
             /\ UNCHANGED <<buffers, slabs, mem, owned, served>>
             /\ ret'.allocs = 0
             /\ ret'.res.ptr = calls.ptr /\ ret'.res.cap = calls.cap
             /\ ret'.res.heap = calls.heap
             /\ SubSeq(ret'.res.arr, 1, calls.len) = Elements(calls)]_vars
    /\ [][(kind # "nil" /\ ret'.op = "SliceAppend"
           /\ ret'.s.len + Len(ret'.data) > ret'.s.cap) =>
             /\ ret'.s = calls
             /\ ret'.allocs = 1
             /\ ret'.res.cap = growCap(calls, Len(ret'.data))
             /\ ret'.asize = TypeOf(calls.type).size * ret'.res.cap
             /\ ret'.aalign = TypeOf(calls.type).align
             /\ Storage(ret'.res) \cap Storage(calls) = {}
             /\ SubSeq(ret'.res.arr, 1, calls.len) = Elements(calls)]_vars

\* a slice in the arena with an element in it is appended to in place, and a
\* full one moves to a new array of the arena
C35_Witness ==
    /\ kind = "monotonic" /\ ret.op = "SliceAppend"
    /\ ret.s.len >= 1 /\ ~ret.s.heap /\ Len(ret.data) >= 1
    /\ \E k \in 1..ret.s.len : ret.s.arr[k] # 0
    /\ \/ ret.s.len + Len(ret.data) <= ret.s.cap /\ ret.allocs = 0
       \/ ret.allocs = 1 /\ ret.aptr # Nil /\ ~ret.res.heap

---------------------------------------------------------------------------
(* Properties of one call of monotonicBuffer.alloc *)

\* C36: with w-bit wrap-around arithmetic a monotonic buffer's alloc grants a
\* request (returns a pointer, or passes the capacity check and advances the
\* offset) only if size <= capacity - offset - pad in unbounded arithmetic,
\* for every size in 0..2^w-1.
C36_NoWrapIntoRoom ==
    (ret.op = "alloc" /\ ret.done) =>
        ((ret.r.ptr # Nil \/ ret.r.panic \/ ret.r.s.offset # ret.s.offset) =>
            ret.size + PadTo(ret.fresh + ret.s.offset, ret.alignment)
                <= ret.s.size - ret.s.offset)

---------------------------------------------------------------------------
(* Properties of the addresses a monotonic arena returns *)

\* C37: every address returned by a successful Alloc of a monotonic arena,
\* also for size 0 and from a buffer that is full, lies in [base, base+capacity)
\* of one of the arena's buffers: isMonotonicArenaPtr holds for it.
C37_ReturnedInsideBlock ==
    (IsAlloc /\ ret.ptr # Nil) => isMonotonicArenaPtr(buffers, ret.ptr)

---------------------------------------------------------------------------
(* Properties of Reset called twice *)

\* the arena after a.Reset(release) on the buffers bufs with content m
ResetOf(bufs, m, release) ==
    IF kind = "monotonic" THEN monotonicArenaReset(bufs, m, release)
                          ELSE slabArenaReset(bufs, m, release)

\* C38: Reset is idempotent: on a monotonic or a slab arena in any reachable
\* state, a second Reset(release) right after the first, with the same release,
\* leaves the offset and the block of every buffer as the first call left them.
C38_ResetIdempotent ==
    /\ [](kind \in {"monotonic", "slab"} =>
             \A release \in BOOLEAN :
                 ResetOf(ResetOf(Bufs, mem, release).bufs,
                         ResetOf(Bufs, mem, release).mem, release).bufs
                     = ResetOf(Bufs, mem, release).bufs)
    /\ [][(ret.op = "Reset" /\ ret'.op = "Reset" /\ ret'.release = ret.release) =>
             (buffers' = buffers /\ slabs' = slabs)]_vars

\* the state between the two calls: the first Reset(false) found buffers in
\* use and rewound them, their blocks are kept
C38_Witness ==
    /\ ret.op = "Reset" /\ ~ret.release /\ ret.used >= 1
    /\ \A i \in 1..Len(Bufs) : Bufs[i].offset = 0
    /\ \E i \in 1..Len(Bufs) : Bufs[i].ptr # Nil

====
